---- MODULE Spec2Model ----
(***************************************************************************)
(* Model of the E. coli genome-analysis scripts:                           *)
(*   - scripts/run_full_analysis.py: the driver that launches the ten      *)
(*     stage scripts as child processes, verifies the expected files and   *)
(*     writes the final report;                                            *)
(*   - the file reads and writes of every stage script;                    *)
(*   - scripts/analysis/analyze_gene_distribution.py: the size             *)
(*     categorizer, the statistics bundle and the band percentages.        *)
(***************************************************************************)
EXTENDS Integers, Sequences, FiniteSets, TLC

VARIABLES
    pc,                \* position in run_full_analysis.main
    idx,               \* index (1-based) of the next script to launch
    fs,                \* the filesystem: file -> "absent" | "stale" | writer
    launched,          \* scripts launched so far, in launch order
    resultados,        \* what happened to each launched child process
    exitos,            \* what ejecutar_script returned for each launch
    scripts_exitosos,  \* counter of main
    scripts_fallidos,  \* counter of main
    archivos_ok,       \* result of verificar_archivos_generados
    reporte_ok,        \* result of generar_reporte_final
    exit_code,         \* value returned by main (-1 while running)
    faults,            \* environment failures injected so far
    leidos,            \* <<script, file, content>> for every file read
    escritos,          \* <<script, file>> for every file written
    pos,               \* interleaved run: script -> operations completed
    paso,              \* position in analyze_gene_distribution.main
    cds_list,          \* the extracted CDS records
    stats_nt,          \* statistics bundle of the nucleotide lengths
    categorias,        \* band -> list of CDS records
    porcentajes,       \* band -> percentage, in hundredths
    entrada,           \* a helper call: the function and its arguments
    salida,            \* what the helper returned or raised
    genes_extremos,    \* the ten shortest and the ten longest CDS records
    paso_descarga,     \* position of download_ecoli_fixed in its script
    output_file,       \* content of ecoli_k12_mg1655.gbk
    backup,            \* content of ecoli_k12_mg1655.gbk.backup
    record,            \* the record the download holds in memory
    previo             \* content of ecoli_k12_mg1655.gbk before the run

driverVars == <<pc, idx, launched, resultados, exitos, scripts_exitosos,
                scripts_fallidos, archivos_ok, reporte_ok, exit_code, faults>>
fsVars == <<fs, leidos, escritos>>
distVars == <<paso, cds_list, stats_nt, categorias, porcentajes,
              genes_extremos>>
utilVars == <<entrada, salida>>
descVars == <<paso_descarga, output_file, backup, record, previo>>
vars == <<pc, idx, fs, launched, resultados, exitos, scripts_exitosos,
          scripts_fallidos, archivos_ok, reporte_ok, exit_code, faults,
          leidos, escritos, pos, paso, cds_list, stats_nt, categorias,
          porcentajes, entrada, salida, genes_extremos, paso_descarga,
          output_file, backup, record, previo>>

-----------------------------------------------------------------------------
(* Bounds *)

\* environment failures (crash, timeout, launch error) injected per run
MaxFaults == 1

\* longest CDS list drawn from Longitudes
MaxCDS == 3

-----------------------------------------------------------------------------
(* Files *)

GBK == "ecoli_k12_mg1655.gbk"

\* run_full_analysis.verificar_archivos_generados: archivos_esperados
archivos_esperados ==
    << "atg_analysis.json", "stop_codons_analysis.json",
       "genome_statistics.json", "gene_size_distribution_analysis.json",
       "validation_results.json", "genome_validation_results.json",
       "atg_distribution.png", "stop_codons_comparison.png",
       "gene_size_distribution.png", "genome_overview.png" >>

ArchivosEsperados == {archivos_esperados[i] : i \in DOMAIN archivos_esperados}

REPORTE == "REPORTE_FINAL.txt"

R(f) == [op |-> "read", f |-> f]
W(f) == [op |-> "write", f |-> f]

-----------------------------------------------------------------------------
(* The file operations of every stage script, in program order *)

\* analyze_atg.py: reads the genome and writes atg_analysis.json, the first
\* file the driver expects from the analysis phase
Ops_analyze_atg == << R(GBK), W("atg_analysis.json") >>

\* analyze_stop_codons.py: reads the genome and writes
\* stop_codons_analysis.json
Ops_analyze_stop_codons == << R(GBK), W("stop_codons_analysis.json") >>

Ops_analyze_genome_stats ==
    << R(GBK), W("genome_statistics.json"),
       W("genome_statistics_summary.csv"), W("cds_detailed_info.csv"),
       W("cds_size_distribution.csv") >>

\* variant: the gene-distribution script also writes the size table that the
\* genome-statistics script writes
Ops_analyze_gene_distribution_Colision ==
    << R(GBK), W("gene_size_distribution_analysis.json"),
       W("all_genes_with_sizes.csv"), W("cds_size_distribution.csv"),
       W("extreme_genes.csv") >>

Ops_analyze_gene_distribution ==
    << R(GBK), W("gene_size_distribution_analysis.json"),
       W("all_genes_with_sizes.csv"), W("gene_size_categories.csv"),
       W("extreme_genes.csv") >>

Ops_validate_results ==
    << R("atg_analysis.json"), R("stop_codons_analysis.json"),
       W("validation_results.json"), W("validation_summary.csv"),
       W("stop_codons_preferences.csv") >>

Ops_validate_genome_stats ==
    << R("genome_statistics.json"), W("genome_validation_results.json"),
       W("genome_validation_summary.csv") >>

Ops_plot_atg_distribution ==
    << R("atg_analysis.json"), W("atg_distribution.png"),
       R("atg_analysis.json"), W("atg_density.png") >>

Ops_plot_stop_codons ==
    << R("stop_codons_analysis.json"), R("validation_results.json"),
       W("stop_codons_comparison.png"),
       R("stop_codons_analysis.json"), W("stop_codons_pie.png") >>

Ops_plot_gene_distribution ==
    << R("cds_size_distribution.csv"),
       R("gene_size_distribution_analysis.json"),
       W("gene_size_distribution.png"),
       R("all_genes_with_sizes.csv"), W("gene_size_violin.png"),
       R("extreme_genes.csv"), W("extreme_genes.png") >>

Ops_plot_genome_overview ==
    << R("genome_statistics.json"), R("atg_analysis.json"),
       R("stop_codons_analysis.json"), W("genome_overview.png") >>

Ops(s) ==
    CASE s = "analyze_atg.py" -> Ops_analyze_atg
      [] s = "analyze_stop_codons.py" -> Ops_analyze_stop_codons
      [] s = "analyze_genome_stats.py" -> Ops_analyze_genome_stats
      [] s = "analyze_gene_distribution.py" -> Ops_analyze_gene_distribution
      [] s = "validate_results.py" -> Ops_validate_results
      [] s = "validate_genome_stats.py" -> Ops_validate_genome_stats
      [] s = "plot_atg_distribution.py" -> Ops_plot_atg_distribution
      [] s = "plot_stop_codons.py" -> Ops_plot_stop_codons
      [] s = "plot_gene_distribution.py" -> Ops_plot_gene_distribution
      [] s = "plot_genome_overview.py" -> Ops_plot_genome_overview

-----------------------------------------------------------------------------
(* The driver's script tables *)

SCRIPTS_ANALISIS ==
    << "analyze_atg.py", "analyze_stop_codons.py",
       "analyze_genome_stats.py", "analyze_gene_distribution.py" >>

SCRIPTS_VALIDACION == << "validate_results.py", "validate_genome_stats.py" >>

SCRIPTS_VISUALIZACION ==
    << "plot_atg_distribution.py", "plot_stop_codons.py",
       "plot_gene_distribution.py", "plot_genome_overview.py" >>

\* variant: the validation scripts are launched before the analysis scripts
Etapas_ValidacionPrimero ==
    SCRIPTS_VALIDACION \o SCRIPTS_ANALISIS \o SCRIPTS_VISUALIZACION

\* the three for-loops of main, in the order main runs them
Etapas == SCRIPTS_ANALISIS \o SCRIPTS_VALIDACION \o SCRIPTS_VISUALIZACION

Scripts == {Etapas[i] : i \in DOMAIN Etapas}

\* main: total_scripts
total_scripts ==
    Len(SCRIPTS_ANALISIS) + Len(SCRIPTS_VALIDACION) + Len(SCRIPTS_VISUALIZACION)

Archivos ==
    {GBK, REPORTE} \cup ArchivosEsperados
    \cup UNION {{Ops(s)[i].f : i \in DOMAIN Ops(s)} : s \in Scripts}

Lee(s) == {Ops(s)[i].f : i \in {j \in DOMAIN Ops(s) : Ops(s)[j].op = "read"}}
Escribe(s) == {Ops(s)[i].f : i \in {j \in DOMAIN Ops(s) : Ops(s)[j].op = "write"}}

-----------------------------------------------------------------------------
(* A child process working through its file operations *)

\* the filesystem after script s has completed the first k operations of ops
FsTras(ops, s, f, k) ==
    [x \in Archivos |->
        IF \E j \in 1..k : ops[j] = W(x) THEN s ELSE f[x]]

\* open(..., 'r') / pd.read_csv / SeqIO.read on a missing file raises: the
\* index of the first read that finds its file absent, Len(ops)+1 if none
Bloqueo(ops, s, f) ==
    LET malas == {j \in DOMAIN ops :
                    /\ ops[j].op = "read"
                    /\ FsTras(ops, s, f, j - 1)[ops[j].f] = "absent"}
    IN  IF malas = {} THEN Len(ops) + 1
        ELSE CHOOSE j \in malas : \A i \in malas : j <= i

\* the reads performed within the first k operations, with the content seen
LeidosTras(ops, s, f, k) ==
    {<<s, ops[j].f, FsTras(ops, s, f, j - 1)[ops[j].f]>> :
        j \in {i \in 1..k : ops[i].op = "read"}}

EscritosTras(ops, s, k) ==
    {<<s, ops[j].f>> : j \in {i \in 1..k : ops[i].op = "write"}}

\* outcomes of subprocess.run as ejecutar_script sees them
Returned(rc, err) == [kind |-> "returned", returncode |-> rc, error |-> err]
TimeoutExpired == [kind |-> "timeout", returncode |-> -1, error |-> "TimeoutExpired"]
LaunchException == [kind |-> "exception", returncode |-> -1, error |-> "Exception"]

\* the outcomes a child can have on filesystem f, each with the number of
\* file operations it completed; puedeFallar allows an environment failure
Desenlaces(ops, s, f, puedeFallar) ==
    LET b == Bloqueo(ops, s, f)
        natural ==
            IF b <= Len(ops)
            THEN {[k |-> b - 1, res |-> Returned(1, "FileNotFoundError")]}
            ELSE {[k |-> Len(ops), res |-> Returned(0, "none")]}
        fallos ==
            {[k |-> 0, res |-> LaunchException]}
            \cup {[k |-> k, res |-> r] :
                    k \in 0..(b - 1), r \in {TimeoutExpired, Returned(1, "other")}}
    IN  IF puedeFallar THEN natural \cup fallos ELSE natural

-----------------------------------------------------------------------------
(* run_full_analysis.py *)

\* variant: the timeout handler reports success
ejecutar_script_TimeoutOk(res) ==
    IF res.kind = "returned"
    THEN res.returncode = 0
    ELSE res.kind = "timeout"

\* ejecutar_script: True only on returncode == 0; timeout and any other
\* exception are caught and turned into False
ejecutar_script(res) ==
    IF res.kind = "returned"
    THEN res.returncode = 0
    ELSE FALSE

\* variant: the loops stop at the first failed script
SiguienteScript_Aborta(i, exito) == IF exito THEN i + 1 ELSE 11

\* the for-loops of main move on to the next script whatever the result
SiguienteScript(i, exito) == i + 1

\* verificar_archivos_generados: every expected file exists
verificar_archivos_generados(f) ==
    LET encontrados == {i \in DOMAIN archivos_esperados :
                          f[archivos_esperados[i]] # "absent"}
    IN  Cardinality(encontrados) = Len(archivos_esperados)

\* the four JSON documents generar_reporte_final loads
ArchivosReporte ==
    {"atg_analysis.json", "stop_codons_analysis.json",
     "genome_statistics.json", "validation_results.json"}

\* generar_reporte_final: any exception (missing file, failed write) -> False
generar_reporte_final(f, errorEscritura) ==
    /\ \A x \in ArchivosReporte : f[x] # "absent"
    /\ ~errorEscritura

\* variant: the final if ignores reporte_ok
CodigoSalida_SinReporte(fallidos, aok, rok) ==
    IF fallidos = 0 /\ aok THEN 0 ELSE 1

\* the final if of main
CodigoSalida(fallidos, aok, rok) ==
    IF fallidos = 0 /\ aok /\ rok THEN 0 ELSE 1

\* files a previous run may have left behind
Restos ==
    {{}, Archivos \ {GBK, REPORTE}} \cup {{x} : x \in ArchivosEsperados}

UtilOff ==
    /\ entrada = [fn |-> "off"]
    /\ salida = [estado |-> "off"]

DescargaOff ==
    /\ paso_descarga = "off"
    /\ output_file = "absent"
    /\ backup = "absent"
    /\ record = "none"
    /\ previo = "absent"

DistOff ==
    /\ paso = "off"
    /\ cds_list = <<>>
    /\ stats_nt = <<>>
    /\ categorias = <<>>
    /\ porcentajes = <<>>
    /\ genes_extremos = <<>>

Init ==
    /\ pc = "scripts"
    /\ idx = 1
    /\ \E gbk \in {"absent", "stale"}, restos \in Restos :
          fs = [x \in Archivos |->
                  IF x = GBK THEN gbk
                  ELSE IF x \in restos THEN "stale" ELSE "absent"]
    /\ launched = <<>>
    /\ resultados = <<>>
    /\ exitos = <<>>
    /\ scripts_exitosos = 0
    /\ scripts_fallidos = 0
    /\ archivos_ok = FALSE
    /\ reporte_ok = FALSE
    /\ exit_code = -1
    /\ faults = 0
    /\ leidos = {}
    /\ escritos = {}
    /\ pos = <<>>
    /\ DistOff
    /\ UtilOff
    /\ DescargaOff

\* one iteration of the for-loops of main: launch the script, wait for it,
\* count the result
EjecutarSiguiente ==
    /\ pc = "scripts"
    /\ idx <= Len(Etapas)
    /\ LET s == Etapas[idx] IN
       \E d \in Desenlaces(Ops(s), s, fs, faults < MaxFaults) :
          LET exito == ejecutar_script(d.res)
              fallo == d \notin Desenlaces(Ops(s), s, fs, FALSE)
              sig == SiguienteScript(idx, exito)
          IN  /\ launched' = Append(launched, s)
              /\ resultados' = Append(resultados, d.res)
              /\ exitos' = Append(exitos, exito)
              /\ fs' = FsTras(Ops(s), s, fs, d.k)
              /\ leidos' = leidos \cup LeidosTras(Ops(s), s, fs, d.k)
              /\ escritos' = escritos \cup EscritosTras(Ops(s), s, d.k)
              /\ faults' = IF fallo THEN faults + 1 ELSE faults
              /\ scripts_exitosos' = IF exito THEN scripts_exitosos + 1
                                               ELSE scripts_exitosos
              /\ scripts_fallidos' = IF exito THEN scripts_fallidos
                                               ELSE scripts_fallidos + 1
              /\ idx' = sig
              /\ pc' = IF sig > Len(Etapas) THEN "verificar" ELSE "scripts"
    /\ UNCHANGED <<archivos_ok, reporte_ok, exit_code, pos>>
    /\ UNCHANGED distVars
    /\ UNCHANGED utilVars
    /\ UNCHANGED descVars

Verificar ==
    /\ pc = "verificar"
    /\ archivos_ok' = verificar_archivos_generados(fs)
    /\ pc' = "reporte"
    /\ UNCHANGED <<idx, launched, resultados, exitos, scripts_exitosos,
                   scripts_fallidos, reporte_ok, exit_code, faults, pos>>
    /\ UNCHANGED fsVars
    /\ UNCHANGED distVars
    /\ UNCHANGED utilVars
    /\ UNCHANGED descVars

GenerarReporte ==
    /\ pc = "reporte"
    /\ \E errorEscritura \in BOOLEAN :
          LET ok == generar_reporte_final(fs, errorEscritura)
          IN  /\ reporte_ok' = ok
              /\ fs' = IF ok THEN [fs EXCEPT ![REPORTE] = "run_full_analysis.py"]
                              ELSE fs
              /\ leidos' = leidos
              /\ escritos' = IF ok THEN escritos \cup {<<"run_full_analysis.py", REPORTE>>}
                                    ELSE escritos
    /\ pc' = "resumen"
    /\ UNCHANGED <<idx, launched, resultados, exitos, scripts_exitosos,
                   scripts_fallidos, archivos_ok, exit_code, faults, pos>>
    /\ UNCHANGED distVars
    /\ UNCHANGED utilVars
    /\ UNCHANGED descVars

Resumen ==
    /\ pc = "resumen"
    /\ exit_code' = CodigoSalida(scripts_fallidos, archivos_ok, reporte_ok)
    /\ pc' = "done"
    /\ UNCHANGED <<idx, launched, resultados, exitos, scripts_exitosos,
                   scripts_fallidos, archivos_ok, reporte_ok, faults, pos>>
    /\ UNCHANGED fsVars
    /\ UNCHANGED distVars
    /\ UNCHANGED utilVars
    /\ UNCHANGED descVars

Next == EjecutarSiguiente \/ Verificar \/ GenerarReporte \/ Resumen

Spec == Init /\ [][Next]_vars

-----------------------------------------------------------------------------
(* Two analysis scripts started together, their file operations interleaved *)

ParScripts == {"analyze_genome_stats.py", "analyze_gene_distribution.py"}

DriverOff ==
    /\ pc = "off"
    /\ idx = 0
    /\ launched = <<>>
    /\ resultados = <<>>
    /\ exitos = <<>>
    /\ scripts_exitosos = 0
    /\ scripts_fallidos = 0
    /\ archivos_ok = FALSE
    /\ reporte_ok = FALSE
    /\ exit_code = -1
    /\ faults = 0

InitPar ==
    /\ DriverOff
    /\ DistOff
    /\ UtilOff
    /\ DescargaOff
    /\ \E gbk \in {"absent", "stale"}, restos \in Restos :
          fs = [x \in Archivos |->
                  IF x = GBK THEN gbk
                  ELSE IF x \in restos THEN "stale" ELSE "absent"]
    /\ leidos = {}
    /\ escritos = {}
    /\ pos = [s \in ParScripts |-> [k |-> 0, estado |-> "running"]]

\* script s performs its next file operation
PasoPar(s) ==
    /\ pos[s].estado = "running"
    /\ LET op == Ops(s)[pos[s].k + 1]
           fin == IF pos[s].k + 1 = Len(Ops(s)) THEN "done" ELSE "running"
       IN  IF op.op = "read"
           THEN IF fs[op.f] = "absent"
                THEN /\ pos' = [pos EXCEPT ![s].estado = "crashed"]
                     /\ UNCHANGED fsVars
                ELSE /\ leidos' = leidos \cup {<<s, op.f, fs[op.f]>>}
                     /\ pos' = [pos EXCEPT ![s] = [k |-> @.k + 1, estado |-> fin]]
                     /\ UNCHANGED <<fs, escritos>>
           ELSE /\ fs' = [fs EXCEPT ![op.f] = s]
                /\ escritos' = escritos \cup {<<s, op.f>>}
                /\ pos' = [pos EXCEPT ![s] = [k |-> @.k + 1, estado |-> fin]]
                /\ UNCHANGED leidos
    /\ UNCHANGED driverVars
    /\ UNCHANGED distVars
    /\ UNCHANGED utilVars
    /\ UNCHANGED descVars

NextPar == \E s \in ParScripts : PasoPar(s)

SpecPar == InitPar /\ [][NextPar]_vars

-----------------------------------------------------------------------------
(* analyze_gene_distribution.py *)

\* CDS lengths around every band limit
Longitudes == {0, 299, 300, 599, 600, 1199, 1200, 2399, 2400, 4500}

\* the lengths of the end-to-end scenario
LongitudesEscenario == <<90, 150, 300, 600, 900, 1200, 2400, 3000, 4500>>

\* twelve lengths, more than the ten an extreme-gene table holds, with
\* lengths that repeat
LongitudesDoce ==
    <<600, 300, 4500, 300, 1200, 0, 2400, 299, 4500, 1199, 300, 599>>

RECURSIVE Listas(_)
Listas(n) ==
    IF n = 0 THEN {<<>>}
    ELSE LET cortas == Listas(n - 1)
         IN  cortas \cup {Append(l, x) : l \in {c \in cortas : Len(c) = n - 1},
                                          x \in Longitudes}

\* a CDS record as extraer_info_genes_completa builds it: the position in
\* the feature list stands for the locus tag
Registros(longs) ==
    [i \in DOMAIN longs |->
        [locus_tag |-> i, longitud_nt |-> longs[i], longitud_aa |-> longs[i] \div 3]]

\* main: longitudes_nt
longitudes_nt(lista) == [i \in DOMAIN lista |-> lista[i].longitud_nt]

RECURSIVE Insertar(_, _)
Insertar(ord, x) ==
    IF ord = <<>> THEN <<x>>
    ELSE IF x <= Head(ord) THEN <<x>> \o ord
    ELSE <<Head(ord)>> \o Insertar(Tail(ord), x)

RECURSIVE Ordenar(_)
Ordenar(a) == IF a = <<>> THEN <<>> ELSE Insertar(Ordenar(Tail(a)), Head(a))

RECURSIVE Suma(_)
Suma(a) == IF a = <<>> THEN 0 ELSE Head(a) + Suma(Tail(a))

\* variant: the median field holds np.mean
mediana_Media(arr) == [num |-> Suma(arr), den |-> Len(arr)]

\* np.median: the middle of the sorted values, the mean of the two middle
\* ones for an even count; a fraction num/den
mediana(arr) ==
    LET o == Ordenar(arr)
        n == Len(arr)
    IN  IF n % 2 = 1
        THEN [num |-> o[(n + 1) \div 2], den |-> 1]
        ELSE [num |-> o[n \div 2] + o[n \div 2 + 1], den |-> 2]

minimo(arr) == CHOOSE x \in {arr[i] : i \in DOMAIN arr} :
                  \A i \in DOMAIN arr : x <= arr[i]

maximo(arr) == CHOOSE x \in {arr[i] : i \in DOMAIN arr} :
                  \A i \in DOMAIN arr : x >= arr[i]

RECURSIVE MCD(_, _)
MCD(a, b) == IF b = 0 THEN a ELSE MCD(b, a % b)

Abs(n) == IF n < 0 THEN -n ELSE n

\* A fraction num/den with den > 0, in lowest terms, stands for a float the
\* code computes.
Rac(n, d) ==
    LET g == MCD(Abs(n), d)
    IN  [num |-> n \div g, den |-> d \div g]

Entero(n) == Rac(n, 1)

Mas(a, b) == Rac(a.num * b.den + b.num * a.den, a.den * b.den)

Resta(a, b) == Rac(a.num * b.den - b.num * a.den, a.den * b.den)

\* variant: the product with its sign changed
Por_Negado(a, b) == Rac(-(a.num * b.num), a.den * b.den)

Por(a, b) == Rac(a.num * b.num, a.den * b.den)

Menor(a, b) == a.num * b.den < b.num * a.den

MenorIgual(a, b) == a.num * b.den <= b.num * a.den

Igual(a, b) == a.num * b.den = b.num * a.den

\* round(x, 2) of a fraction, in hundredths: the nearest hundredth, a tie
\* going to the even one
round2(x) ==
    LET n == x.num * 100
        q == n \div x.den
        r == n % x.den
    IN  IF 2 * r < x.den THEN q
        ELSE IF 2 * r > x.den THEN q + 1
        ELSE IF q % 2 = 0 THEN q ELSE q + 1

\* variant: the percentile is the sorted value at the rank below, without
\* interpolation
np_percentile_RangoInferior(arr, p) ==
    LET o == Ordenar(arr)
        h == (Len(arr) - 1) * p
    IN  Rac(o[h \div 100 + 1] * 100, 100)

\* np.percentile(arr, p), linear method, for a non-empty array: the virtual
\* index (n - 1) * p / 100 in the sorted values, interpolated between its
\* two neighbours
np_percentile(arr, p) ==
    LET o == Ordenar(arr)
        h == (Len(arr) - 1) * p
        lo == h \div 100
        r == h % 100
    IN  IF r = 0
        THEN Rac(o[lo + 1] * 100, 100)
        ELSE Rac(o[lo + 1] * (100 - r) + o[lo + 2] * r, 100)

RECURSIVE SumaCuadrados(_)
SumaCuadrados(a) ==
    IF a = <<>> THEN 0 ELSE Head(a) * Head(a) + SumaCuadrados(Tail(a))

\* np.mean
np_mean(arr) == Rac(Suma(arr), Len(arr))

\* np.var: the population variance, mean of the squares minus the square
\* of the mean
np_var(arr) ==
    Rac(Len(arr) * SumaCuadrados(arr) - Suma(arr) * Suma(arr),
        Len(arr) * Len(arr))

\* coef * sqrt(radicando): a float that is a square root stays symbolic
Raiz(c, x) == [coef |-> c, radicando |-> x]

\* np.std: the square root of np.var
np_std(arr) == Raiz(1, np_var(arr))

\* Counter: one entry per distinct value, in order of first appearance
Incrementar(c, x) ==
    IF \E i \in DOMAIN c : c[i].valor = x
    THEN [i \in DOMAIN c |->
             IF c[i].valor = x
             THEN [valor |-> x, cuenta |-> c[i].cuenta + 1]
             ELSE c[i]]
    ELSE Append(c, [valor |-> x, cuenta |-> 1])

RECURSIVE Contar(_, _)
Contar(c, a) ==
    IF a = <<>> THEN c ELSE Contar(Incrementar(c, Head(a)), Tail(a))

Counter(arr) == Contar(<<>>, arr)

RECURSIVE most_common(_, _)
RECURSIVE most_common_Ultimo(_, _)

\* variant: among equal counts the entry met last wins
most_common_Ultimo(mejor, c) ==
    IF c = <<>> THEN mejor
    ELSE most_common_Ultimo(IF Head(c).cuenta >= mejor.cuenta
                            THEN Head(c) ELSE mejor,
                            Tail(c))

\* most_common(1) is max(items, key = count): an entry replaces the best
\* one so far only with a strictly larger count
most_common(mejor, c) ==
    IF c = <<>> THEN mejor
    ELSE most_common(IF Head(c).cuenta > mejor.cuenta
                     THEN Head(c) ELSE mejor,
                     Tail(c))

\* Counter(arr).most_common(1)[0][0], for a non-empty array
moda(arr) ==
    LET c == Counter(arr)
    IN  most_common(Head(c), Tail(c)).valor

NaN == [num |-> 0, den |-> 0]

\* variant: the division is done whatever the mean
coef_variacion_SinGuarda(arr) ==
    IF Suma(arr) > 0
    THEN Raiz(100, Rac(Len(arr) * SumaCuadrados(arr) - Suma(arr) * Suma(arr),
                       Suma(arr) * Suma(arr)))
    ELSE Raiz(100, NaN)

\* np.std(arr) / np.mean(arr) * 100 if np.mean(arr) > 0 else 0; with
\* std = sqrt(var) the quotient is 100 * sqrt(var / mean^2), and
\* var / mean^2 = (n * sum of squares - sum^2) / sum^2
coef_variacion(arr) ==
    IF Suma(arr) > 0
    THEN Raiz(100, Rac(Len(arr) * SumaCuadrados(arr) - Suma(arr) * Suma(arr),
                       Suma(arr) * Suma(arr)))
    ELSE Raiz(0, Entero(0))

\* calcular_estadisticas_avanzadas, for a non-empty array (np.min raises
\* ValueError on an empty one)
calcular_estadisticas_avanzadas(arr) ==
    [total |-> Len(arr),
     media |-> np_mean(arr),
     mediana |-> mediana(arr),
     moda |-> moda(arr),
     desviacion_std |-> np_std(arr),
     varianza |-> np_var(arr),
     minimo |-> minimo(arr),
     maximo |-> maximo(arr),
     rango |-> maximo(arr) - minimo(arr),
     percentil_5 |-> np_percentile(arr, 5),
     percentil_10 |-> np_percentile(arr, 10),
     percentil_25 |-> np_percentile(arr, 25),
     percentil_50 |-> np_percentile(arr, 50),
     percentil_75 |-> np_percentile(arr, 75),
     percentil_90 |-> np_percentile(arr, 90),
     percentil_95 |-> np_percentile(arr, 95),
     rango_intercuartil |->
         Resta(np_percentile(arr, 75), np_percentile(arr, 25)),
     coef_variacion |-> coef_variacion(arr)]

\* calcular_estadisticas_descriptivas: six zeros for an empty array
calcular_estadisticas_descriptivas(arr) ==
    IF Len(arr) = 0
    THEN [total |-> 0, media |-> Entero(0), mediana |-> Entero(0),
          desviacion_std |-> Raiz(0, Entero(0)), minimo |-> 0, maximo |-> 0]
    ELSE [total |-> Len(arr),
          media |-> np_mean(arr),
          mediana |-> mediana(arr),
          moda |-> moda(arr),
          desviacion_std |-> np_std(arr),
          varianza |-> np_var(arr),
          minimo |-> minimo(arr),
          maximo |-> maximo(arr),
          rango |-> maximo(arr) - minimo(arr),
          percentil_25 |-> np_percentile(arr, 25),
          percentil_50 |-> np_percentile(arr, 50),
          percentil_75 |-> np_percentile(arr, 75),
          percentil_95 |-> np_percentile(arr, 95),
          rango_intercuartil |->
              Resta(np_percentile(arr, 75), np_percentile(arr, 25))]

\* calcular_estadisticas_tamanos, for a non-empty array (np.min raises
\* ValueError on an empty one)
calcular_estadisticas_tamanos(arr) ==
    [total |-> Len(arr),
     media |-> np_mean(arr),
     mediana |-> mediana(arr),
     desviacion_std |-> np_std(arr),
     minimo |-> minimo(arr),
     maximo |-> maximo(arr),
     percentil_25 |-> np_percentile(arr, 25),
     percentil_75 |-> np_percentile(arr, 75),
     rango_intercuartil |->
         Resta(np_percentile(arr, 75), np_percentile(arr, 25))]

Bandas == {"muy_pequenos", "pequenos", "medianos", "grandes", "muy_grandes"}

\* variant: the second test is an independent if, not an elif
clasificar_SinElif(cat, cds) ==
    LET longitud == cds.longitud_nt
        c1 == IF longitud < 300
              THEN [cat EXCEPT !["muy_pequenos"] = Append(@, cds)]
              ELSE cat
    IN  IF longitud < 600 THEN [c1 EXCEPT !["pequenos"] = Append(@, cds)]
        ELSE IF longitud < 1200 THEN [c1 EXCEPT !["medianos"] = Append(@, cds)]
        ELSE IF longitud < 2400 THEN [c1 EXCEPT !["grandes"] = Append(@, cds)]
        ELSE [c1 EXCEPT !["muy_grandes"] = Append(@, cds)]

\* variant: the limits are compared with <=
clasificar_LimiteInclusivo(cat, cds) ==
    LET longitud == cds.longitud_nt
    IN  IF longitud <= 300 THEN [cat EXCEPT !["muy_pequenos"] = Append(@, cds)]
        ELSE IF longitud <= 600 THEN [cat EXCEPT !["pequenos"] = Append(@, cds)]
        ELSE IF longitud <= 1200 THEN [cat EXCEPT !["medianos"] = Append(@, cds)]
        ELSE IF longitud <= 2400 THEN [cat EXCEPT !["grandes"] = Append(@, cds)]
        ELSE [cat EXCEPT !["muy_grandes"] = Append(@, cds)]

\* categorizar_por_tamano: the body of the loop, the if/elif chain
clasificar(cat, cds) ==
    LET longitud == cds.longitud_nt
    IN  IF longitud < 300 THEN [cat EXCEPT !["muy_pequenos"] = Append(@, cds)]
        ELSE IF longitud < 600 THEN [cat EXCEPT !["pequenos"] = Append(@, cds)]
        ELSE IF longitud < 1200 THEN [cat EXCEPT !["medianos"] = Append(@, cds)]
        ELSE IF longitud < 2400 THEN [cat EXCEPT !["grandes"] = Append(@, cds)]
        ELSE [cat EXCEPT !["muy_grandes"] = Append(@, cds)]

RECURSIVE categorizar_desde(_, _, _)
categorizar_desde(lista, i, cat) ==
    IF i > Len(lista) THEN cat
    ELSE categorizar_desde(lista, i + 1, clasificar(cat, lista[i]))

\* categorizar_por_tamano: five empty lists, then the loop over cds_list
categorizar_por_tamano(lista) ==
    categorizar_desde(lista, 1, [b \in Bandas |-> <<>>])

\* variant: the percentage is taken with integer division
porcentaje_DivisionEntera(cuenta, total) == ((cuenta * 100) \div total) * 100

\* round(cuenta / total * 100, 2), in hundredths: the nearest hundredth,
\* a tie going to the even one
porcentaje(cuenta, total) ==
    LET n == cuenta * 10000
        q == n \div total
        r == n % total
    IN  IF 2 * r < total THEN q
        ELSE IF 2 * r > total THEN q + 1
        ELSE IF q % 2 = 0 THEN q ELSE q + 1

InitDist ==
    /\ DriverOff
    /\ UtilOff
    /\ DescargaOff
    /\ fs = [x \in Archivos |-> IF x = GBK THEN "stale" ELSE "absent"]
    /\ leidos = {}
    /\ escritos = {}
    /\ pos = <<>>
    /\ paso = "extraido"
    /\ \E longs \in Listas(MaxCDS)
                      \cup {LongitudesEscenario, LongitudesDoce} :
          cds_list = Registros(longs)
    /\ stats_nt = <<>>
    /\ categorias = <<>>
    /\ porcentajes = <<>>
    /\ genes_extremos = <<>>

\* main [3/7]: the statistics of the nucleotide lengths; on an empty list
\* the script dies with ValueError
CalcularEstadisticas ==
    /\ paso = "extraido"
    /\ IF Len(cds_list) = 0
       THEN /\ paso' = "ValueError"
            /\ UNCHANGED stats_nt
       ELSE /\ stats_nt' = calcular_estadisticas_avanzadas(longitudes_nt(cds_list))
            /\ paso' = "estadisticas"
    /\ UNCHANGED <<cds_list, categorias, porcentajes, genes_extremos, pos>>
    /\ UNCHANGED driverVars
    /\ UNCHANGED fsVars
    /\ UNCHANGED utilVars
    /\ UNCHANGED descVars

\* main [5/7]: the categories, then the printed percentages, which divide
\* by len(cds_list) without a guard
Categorizar ==
    /\ paso = "estadisticas"
    /\ IF Len(cds_list) = 0
       THEN /\ paso' = "ZeroDivisionError"
            /\ UNCHANGED categorias
       ELSE /\ categorias' = categorizar_por_tamano(cds_list)
            /\ paso' = "categorizado"
    /\ UNCHANGED <<cds_list, stats_nt, porcentajes, genes_extremos, pos>>
    /\ UNCHANGED driverVars
    /\ UNCHANGED fsVars
    /\ UNCHANGED utilVars
    /\ UNCHANGED descVars

\* variant: a record goes before the records of its own length
insertar_cds_AntesDeIguales(ord, x) ==
    LET antes == {i \in DOMAIN ord : ord[i].longitud_nt < x.longitud_nt}
    IN  SubSeq(ord, 1, Cardinality(antes)) \o <<x>>
            \o SubSeq(ord, Cardinality(antes) + 1, Len(ord))

\* sorted is stable: a record goes after the records, already placed, that
\* are not longer than it
insertar_cds(ord, x) ==
    LET antes == {i \in DOMAIN ord : ord[i].longitud_nt <= x.longitud_nt}
    IN  SubSeq(ord, 1, Cardinality(antes)) \o <<x>>
            \o SubSeq(ord, Cardinality(antes) + 1, Len(ord))

RECURSIVE sorted_desde(_, _, _)
sorted_desde(lista, i, ord) ==
    IF i > Len(lista) THEN ord
    ELSE sorted_desde(lista, i + 1, insertar_cds(ord, lista[i]))

\* sorted(cds_list, key=lambda x: x['longitud_nt'])
sorted_por_longitud(lista) == sorted_desde(lista, 1, <<>>)

\* s[:k]
Primeros(s, k) == SubSeq(s, 1, IF k < Len(s) THEN k ELSE Len(s))

\* s[-k:]
Ultimos(s, k) == SubSeq(s, IF k < Len(s) THEN Len(s) - k + 1 ELSE 1, Len(s))

\* DataFrame(lista).assign(tipo=t); the labels are kept without accents
assign_tipo(lista, t) ==
    [i \in DOMAIN lista |->
        [locus_tag |-> lista[i].locus_tag,
         longitud_nt |-> lista[i].longitud_nt,
         longitud_aa |-> lista[i].longitud_aa,
         tipo |-> t]]

\* main [7/7]: the sorted list and its two ends
IdentificarExtremos ==
    /\ paso = "categorizado"
    /\ LET cds_sorted == sorted_por_longitud(cds_list)
       IN  genes_extremos' = [mas_pequenos |-> Primeros(cds_sorted, 10),
                              mas_grandes |-> Ultimos(cds_sorted, 10),
                              df_extremos |-> <<>>]
    /\ paso' = "extremos"
    /\ UNCHANGED <<cds_list, stats_nt, categorias, porcentajes, pos>>
    /\ UNCHANGED driverVars
    /\ UNCHANGED fsVars
    /\ UNCHANGED utilVars
    /\ UNCHANGED descVars

\* main, resultado_json and the tables: the percentage of every band, the
\* extreme genes (sliced once more) and their table with its tipo column
GuardarResultados ==
    /\ paso = "extremos"
    /\ porcentajes' = [b \in Bandas |->
                          porcentaje(Len(categorias[b]), Len(cds_list))]
    /\ genes_extremos' =
           [mas_pequenos |-> Primeros(genes_extremos.mas_pequenos, 10),
            mas_grandes |-> Ultimos(genes_extremos.mas_grandes, 10),
            df_extremos |->
                assign_tipo(genes_extremos.mas_pequenos, "Mas pequeno")
                    \o assign_tipo(genes_extremos.mas_grandes, "Mas grande")]
    /\ paso' = "guardado"
    /\ UNCHANGED <<cds_list, stats_nt, categorias, pos>>
    /\ UNCHANGED driverVars
    /\ UNCHANGED fsVars
    /\ UNCHANGED utilVars
    /\ UNCHANGED descVars

NextDist ==
    \/ CalcularEstadisticas
    \/ Categorizar
    \/ IdentificarExtremos
    \/ GuardarResultados

SpecDist == InitDist /\ [][NextDist]_vars

-----------------------------------------------------------------------------
(* Properties of the driver *)

Exit0(res) == res.kind = "returned" /\ res.returncode = 0

TodosExit0 ==
    /\ Len(resultados) = 10
    /\ \A i \in DOMAIN resultados : Exit0(resultados[i])

ExistenEsperados == \A x \in ArchivosEsperados : fs[x] # "absent"

ReporteEscrito == fs[REPORTE] = "run_full_analysis.py"

\* C1 as stated: main returns 0 exactly when all ten scripts exited with
\* code 0 and the ten expected files exist, and 1 in every other case.
C1_SalidaSinReporte ==
    pc = "done" =>
        /\ exit_code \in {0, 1}
        /\ exit_code = 0 <=> (TodosExit0 /\ ExistenEsperados)

\* C1 amended: main returns 0 exactly when all ten scripts exited with code
\* 0, the ten expected files exist and generar_reporte_final wrote the final
\* report; in every other case it returns 1.
C1_SalidaConReporte ==
    pc = "done" =>
        /\ exit_code \in {0, 1}
        /\ exit_code = 0 <=> (TodosExit0 /\ ExistenEsperados /\ ReporteEscrito)

C1_Witness == pc = "done" /\ exit_code = 0 /\ TodosExit0

\* C2: whatever succeeds or fails, the scripts launched so far are a prefix
\* of the fixed order analysis (4), validation (2), visualization (4), none
\* twice; verification and the report start only when all ten have been
\* launched and counted, with scripts_exitosos + scripts_fallidos = 10.
C2_OrdenFijo ==
    /\ Len(launched) <= 10
    /\ \A i \in DOMAIN launched :
          launched[i] = (SCRIPTS_ANALISIS \o SCRIPTS_VALIDACION
                            \o SCRIPTS_VISUALIZACION)[i]
    /\ \A i, j \in DOMAIN launched : i # j => launched[i] # launched[j]
    /\ scripts_exitosos + scripts_fallidos = Len(launched)
    /\ pc \in {"verificar", "reporte", "resumen", "done"} =>
          /\ Len(launched) = 10
          /\ Len(SCRIPTS_ANALISIS) = 4 /\ Len(SCRIPTS_VALIDACION) = 2
          /\ Len(SCRIPTS_VISUALIZACION) = 4
          /\ scripts_exitosos + scripts_fallidos = 10
    /\ (archivos_ok \/ reporte_ok \/ ReporteEscrito) => pc # "scripts"

\* a script failed and a later one was still launched and succeeded
C2_Witness ==
    /\ pc = "verificar"
    /\ \E i, j \in DOMAIN exitos : i < j /\ ~exitos[i] /\ exitos[j]

\* C3: ejecutar_script returned True only for a child that exited with code
\* 0; a non-zero exit, a timeout or a launch exception is counted as a
\* failure, the driver still runs to its end, and any failure makes the
\* final exit code 1.
C3_FalloRegistrado ==
    /\ \A i \in DOMAIN exitos : exitos[i] <=> Exit0(resultados[i])
    /\ scripts_fallidos =
          Cardinality({i \in DOMAIN resultados : ~Exit0(resultados[i])})
    /\ (pc = "done" /\ \E i \in DOMAIN resultados : ~Exit0(resultados[i]))
          => exit_code = 1

C3_Witness ==
    /\ pc = "done"
    /\ exit_code = 1
    /\ \E i \in DOMAIN resultados : resultados[i].kind = "timeout"
    /\ \E i \in DOMAIN resultados :
          resultados[i].kind = "returned" /\ resultados[i].returncode # 0

\* C4 as stated: a script is never launched while a file it reads is absent
\* and the earlier script that writes that file has failed.
C4_FallaRapido ==
    [][\A s \in Scripts :
          launched' = Append(launched, s) =>
              \A x \in Lee(s) :
                  ~ /\ fs[x] = "absent"
                    /\ \E i \in DOMAIN launched :
                          x \in Escribe(launched[i]) /\ ~exitos[i]]_vars

PosLanzado(s) ==
    IF \E i \in DOMAIN launched : launched[i] = s
    THEN CHOOSE i \in DOMAIN launched : launched[i] = s
    ELSE 0

\* C5: every file a script has read was written, if at all during the run,
\* only by scripts launched strictly before it; no script writes a file that
\* an earlier script has read.
C5_FlujoUnidireccional ==
    \A r \in leidos : \A w \in escritos :
        r[2] = w[2] => PosLanzado(w[1]) < PosLanzado(r[1])

\* a complete run in which the plotting scripts read what the analysis and
\* validation scripts wrote
C5_Witness ==
    /\ pc = "done"
    /\ <<"validate_genome_stats.py", "genome_statistics.json",
          "analyze_genome_stats.py">> \in leidos
    /\ <<"plot_stop_codons.py", "validation_results.json",
          "validate_results.py">> \in leidos
    /\ <<"plot_gene_distribution.py", "extreme_genes.csv",
          "analyze_gene_distribution.py">> \in leidos
    /\ <<"plot_gene_distribution.py", "cds_size_distribution.csv",
          "analyze_genome_stats.py">> \in leidos

-----------------------------------------------------------------------------
(* Properties of the interleaved analysis scripts *)

ParTerminado == \A s \in ParScripts : pos[s].estado = "done"

\* C6: analyze_genome_stats and analyze_gene_distribution read nothing but
\* the input genome and never content written during the run, no file is
\* written by both, and once both have finished, in whatever interleaving,
\* every output holds what its own script wrote and nothing else was written.
C6_SinDependenciasCruzadas ==
    /\ \A r \in leidos : r[2] = GBK /\ r[3] \notin ParScripts
    /\ \A w1 \in escritos : \A w2 \in escritos :
          w1[2] = w2[2] => w1[1] = w2[1]
    /\ ParTerminado =>
          \A x \in Archivos :
              fs[x] = (IF x \in {"genome_statistics.json",
                                 "genome_statistics_summary.csv",
                                 "cds_detailed_info.csv",
                                 "cds_size_distribution.csv"}
                         THEN "analyze_genome_stats.py"
                       ELSE IF x \in {"gene_size_distribution_analysis.json",
                                      "all_genes_with_sizes.csv",
                                      "gene_size_categories.csv",
                                      "extreme_genes.csv"}
                         THEN "analyze_gene_distribution.py"
                       ELSE IF fs[x] = "absent" THEN "absent" ELSE "stale")

C6_Witness ==
    /\ ParTerminado
    /\ Cardinality(escritos) = 8
    /\ Cardinality(leidos) = 2

-----------------------------------------------------------------------------
(* Properties of the size categorizer and the band percentages *)

Categorizado == paso \in {"categorizado", "extremos", "guardado"}

RECURSIVE SumaBandas(_, _)
SumaBandas(f, bs) ==
    IF bs = {} THEN 0
    ELSE LET b == CHOOSE x \in bs : TRUE
         IN  f[b] + SumaBandas(f, bs \ {b})

Veces(cds, lista) == Cardinality({i \in DOMAIN lista : lista[i] = cds})

\* C7: every CDS record is in exactly one band, exactly once, no band holds
\* a record that is not in the input, and the five band sizes add up to the
\* number of records.
C7_Particion ==
    Categorizado =>
        /\ \A i \in DOMAIN cds_list :
              /\ Cardinality({b \in Bandas :
                                 Veces(cds_list[i], categorias[b]) > 0}) = 1
              /\ \A b \in Bandas : Veces(cds_list[i], categorias[b]) <= 1
        /\ \A b \in Bandas : \A j \in DOMAIN categorias[b] :
              Veces(categorias[b][j], cds_list) = 1
        /\ SumaBandas([b \in Bandas |-> Len(categorias[b])], Bandas)
              = Len(cds_list)

\* three records in three different bands
C7_Witness ==
    /\ Categorizado
    /\ Len(cds_list) = 3
    /\ Cardinality({b \in Bandas : Len(categorias[b]) = 1}) = 3

EnBanda(b, l) ==
    CASE b = "muy_pequenos" -> 0 <= l /\ l < 300
      [] b = "pequenos" -> 300 <= l /\ l < 600
      [] b = "medianos" -> 600 <= l /\ l < 1200
      [] b = "grandes" -> 1200 <= l /\ l < 2400
      [] b = "muy_grandes" -> 2400 <= l

EsEscenario ==
    longitudes_nt(cds_list) = <<90, 150, 300, 600, 900, 1200, 2400, 3000, 4500>>

EstadisticasEscenario ==
    paso \in {"estadisticas", "categorizado", "extremos", "guardado"} =>
        /\ stats_nt.mediana.num = 900 * stats_nt.mediana.den
        /\ stats_nt.minimo = 90
        /\ stats_nt.maximo = 4500

SumaPorcentajes == SumaBandas(porcentajes, Bandas)

\* C10 as stated: with at least one CDS, the five reported percentages add
\* up to 100 (10000 hundredths).
C10_SumaCien ==
    (paso = "guardado" /\ Len(cds_list) > 0) => SumaPorcentajes = 10000

\* C10 amended: with at least one CDS, the five reported percentages add up
\* to 100 give or take 0.02, and each is the band's share of the total to
\* the nearest hundredth.
C10_SumaCasiCien ==
    (paso = "guardado" /\ Len(cds_list) > 0) =>
        /\ SumaPorcentajes >= 10000 - 2
        /\ SumaPorcentajes <= 10000 + 2
        /\ \A b \in Bandas :
              LET e == 2 * (porcentajes[b] * Len(cds_list)
                              - Len(categorias[b]) * 10000)
              IN  e <= Len(cds_list) /\ -e <= Len(cds_list)

\* three bands of one record each: 33.33 + 33.33 + 33.33
C10_Witness ==
    /\ paso = "guardado"
    /\ Len(cds_list) = 3
    /\ SumaPorcentajes = 9999

\* ---------------------------------------------------------------------
\* C11: with an empty CDS population the stage does not fail: it goes on to
\* report its band percentages, all of them zero.
C11_PoblacionVaciaCeros ==
    Len(cds_list) = 0 =>
        /\ paso \notin {"ValueError", "ZeroDivisionError"}
        /\ paso = "guardado" => \A b \in Bandas : porcentajes[b] = 0

\* ---------------------------------------------------------------------
\* The helpers of the statistics and validation modules, each called once
\* on an input drawn from a bounded set.

MaxValores == 4

Muestras == {0, 1, 2, 10}

RECURSIVE Valores(_)
Valores(n) ==
    IF n = 0 THEN {<<>>}
    ELSE LET menos == Valores(n - 1)
         IN  menos \cup {Append(v, x) : v \in {w \in menos : Len(w) = n - 1},
                                        x \in Muestras}

Multiplicadores ==
    {[num |-> 0, den |-> 1], [num |-> 1, den |-> 2], [num |-> 1, den |-> 1],
     [num |-> 3, den |-> 2], [num |-> 3, den |-> 1]}

Pendiente == [estado |-> "pendiente"]

Devuelto(v) == [estado |-> "devuelto", valor |-> v]

Excepcion(e) == [estado |-> "excepcion", excepcion |-> e]

\* the fields an empty input leaves as nan, the counts being zero
SinCuartiles ==
    [nan |-> {"q1", "q3", "iqr", "limite_inferior", "limite_superior"},
     num_outliers_bajos |-> 0,
     num_outliers_altos |-> 0,
     total_outliers |-> 0,
     porcentaje_outliers |-> 0]

\* variant: a value equal to a fence counts as an outlier
identificar_outliers_iqr_NoEstricto(valores, multiplicador) ==
    LET q1 == np_percentile(valores, 25)
        q3 == np_percentile(valores, 75)
        iqr == Resta(q3, q1)
        limite_inferior == Resta(q1, Por(multiplicador, iqr))
        limite_superior == Mas(q3, Por(multiplicador, iqr))
        EsBajo(x) == MenorIgual(Entero(x), limite_inferior)
        EsAlto(x) == MenorIgual(limite_superior, Entero(x))
        bajos == Cardinality({i \in DOMAIN valores : EsBajo(valores[i])})
        altos == Cardinality({i \in DOMAIN valores : EsAlto(valores[i])})
    IN  [q1 |-> round2(q1),
         q3 |-> round2(q3),
         iqr |-> round2(iqr),
         limite_inferior |-> round2(limite_inferior),
         limite_superior |-> round2(limite_superior),
         num_outliers_bajos |-> bajos,
         num_outliers_altos |-> altos,
         total_outliers |-> bajos + altos,
         porcentaje_outliers |-> porcentaje(bajos + altos, Len(valores))]

\* identificar_outliers_iqr, for a non-empty input; the reported quartiles,
\* fences and percentage are rounded to hundredths, the counts use the
\* unrounded fences
identificar_outliers_iqr(valores, multiplicador) ==
    LET q1 == np_percentile(valores, 25)
        q3 == np_percentile(valores, 75)
        iqr == Resta(q3, q1)
        limite_inferior == Resta(q1, Por(multiplicador, iqr))
        limite_superior == Mas(q3, Por(multiplicador, iqr))
        EsBajo(x) == Menor(Entero(x), limite_inferior)
        EsAlto(x) == Menor(limite_superior, Entero(x))
        bajos == Cardinality({i \in DOMAIN valores : EsBajo(valores[i])})
        altos == Cardinality({i \in DOMAIN valores : EsAlto(valores[i])})
    IN  [q1 |-> round2(q1),
         q3 |-> round2(q3),
         iqr |-> round2(iqr),
         limite_inferior |-> round2(limite_inferior),
         limite_superior |-> round2(limite_superior),
         num_outliers_bajos |-> bajos,
         num_outliers_altos |-> altos,
         total_outliers |-> bajos + altos,
         porcentaje_outliers |-> porcentaje(bajos + altos, Len(valores))]

LlamadasOutliersIqr ==
    [fn : {"identificar_outliers_iqr"},
     valores : Valores(MaxValores),
     multiplicador : Multiplicadores]

\* what np.percentile does with an empty array depends on the numpy
\* release: IndexError, or nan with a warning
OutliersVacio == {Excepcion("IndexError"), Devuelto(SinCuartiles)}

LlamarOutliersIqr ==
    /\ entrada.fn = "identificar_outliers_iqr"
    /\ salida = Pendiente
    /\ IF Len(entrada.valores) = 0
       THEN salida' \in OutliersVacio
       ELSE salida' = Devuelto(identificar_outliers_iqr(entrada.valores,
                                                      entrada.multiplicador))
    /\ UNCHANGED entrada
    /\ UNCHANGED <<driverVars, fsVars, distVars, descVars, pos>>

LlamadasEstadisticas ==
    [fn : {"calcular_estadisticas_avanzadas",
           "calcular_estadisticas_descriptivas",
           "calcular_estadisticas_tamanos"},
     valores : Valores(MaxValores)]

\* analyze_gene_distribution.calcular_estadisticas_avanzadas
LlamarEstadisticasAvanzadas ==
    /\ entrada.fn = "calcular_estadisticas_avanzadas"
    /\ salida = Pendiente
    /\ IF Len(entrada.valores) = 0
       THEN salida' = Excepcion("ValueError")
       ELSE salida' = Devuelto(calcular_estadisticas_avanzadas(entrada.valores))
    /\ UNCHANGED entrada
    /\ UNCHANGED <<driverVars, fsVars, distVars, descVars, pos>>

\* genome_utils.calcular_estadisticas_descriptivas
LlamarEstadisticasDescriptivas ==
    /\ entrada.fn = "calcular_estadisticas_descriptivas"
    /\ salida = Pendiente
    /\ salida' = Devuelto(calcular_estadisticas_descriptivas(entrada.valores))
    /\ UNCHANGED entrada
    /\ UNCHANGED <<driverVars, fsVars, distVars, descVars, pos>>

\* analyze_genome_stats.calcular_estadisticas_tamanos
LlamarEstadisticasTamanos ==
    /\ entrada.fn = "calcular_estadisticas_tamanos"
    /\ salida = Pendiente
    /\ IF Len(entrada.valores) = 0
       THEN salida' = Excepcion("ValueError")
       ELSE salida' = Devuelto(calcular_estadisticas_tamanos(entrada.valores))
    /\ UNCHANGED entrada
    /\ UNCHANGED <<driverVars, fsVars, distVars, descVars, pos>>

\* the fields an empty input leaves as nan in identificar_outliers
SinLimites ==
    [nan |-> {"limite_inferior", "limite_superior", "iqr"},
     num_outliers_bajos |-> 0,
     num_outliers_altos |-> 0,
     total_outliers |-> 0,
     porcentaje_outliers |-> Entero(0)]

\* variant: the fences are put 3 IQR away from the quartiles
identificar_outliers_TresIqr(longitudes) ==
    LET q1 == np_percentile(longitudes, 25)
        q3 == np_percentile(longitudes, 75)
        iqr == Resta(q3, q1)
        limite_inferior == Resta(q1, Por(Rac(3, 1), iqr))
        limite_superior == Mas(q3, Por(Rac(3, 1), iqr))
        EsBajo(x) == Menor(Entero(x), limite_inferior)
        EsAlto(x) == Menor(limite_superior, Entero(x))
        bajos == Cardinality({i \in DOMAIN longitudes : EsBajo(longitudes[i])})
        altos == Cardinality({i \in DOMAIN longitudes : EsAlto(longitudes[i])})
    IN  [limite_inferior |-> limite_inferior,
         limite_superior |-> limite_superior,
         iqr |-> iqr,
         num_outliers_bajos |-> bajos,
         num_outliers_altos |-> altos,
         total_outliers |-> bajos + altos,
         porcentaje_outliers |-> Rac((bajos + altos) * 100, Len(longitudes))]

\* analyze_gene_distribution.identificar_outliers, for a non-empty input:
\* the multiplier is 1.5 and nothing is rounded
identificar_outliers(longitudes) ==
    LET q1 == np_percentile(longitudes, 25)
        q3 == np_percentile(longitudes, 75)
        iqr == Resta(q3, q1)
        limite_inferior == Resta(q1, Por(Rac(3, 2), iqr))
        limite_superior == Mas(q3, Por(Rac(3, 2), iqr))
        EsBajo(x) == Menor(Entero(x), limite_inferior)
        EsAlto(x) == Menor(limite_superior, Entero(x))
        bajos == Cardinality({i \in DOMAIN longitudes : EsBajo(longitudes[i])})
        altos == Cardinality({i \in DOMAIN longitudes : EsAlto(longitudes[i])})
    IN  [limite_inferior |-> limite_inferior,
         limite_superior |-> limite_superior,
         iqr |-> iqr,
         num_outliers_bajos |-> bajos,
         num_outliers_altos |-> altos,
         total_outliers |-> bajos + altos,
         porcentaje_outliers |-> Rac((bajos + altos) * 100, Len(longitudes))]

LlamadasOutliers ==
    [fn : {"identificar_outliers"}, valores : Valores(MaxValores)]

LlamarOutliers ==
    /\ entrada.fn = "identificar_outliers"
    /\ salida = Pendiente
    /\ IF Len(entrada.valores) = 0
       THEN salida' \in {Excepcion("IndexError"), Devuelto(SinLimites)}
       ELSE salida' = Devuelto(identificar_outliers(entrada.valores))
    /\ UNCHANGED entrada
    /\ UNCHANGED <<driverVars, fsVars, distVars, descVars, pos>>

\* The numbers handed to the validators: fractions that binary floating
\* point holds exactly, so that the float subtraction and comparisons are
\* the exact ones.
Numeros ==
    {[num |-> 0, den |-> 1], [num |-> 1, den |-> 8], [num |-> 1, den |-> 2],
     [num |-> 1, den |-> 1], [num |-> 3, den |-> 2], [num |-> 2, den |-> 1]}

AbsRac(a) == Rac(Abs(a.num), a.den)

\* a / b for b # 0
Cociente(a, b) ==
    IF b.num > 0
    THEN Rac(a.num * b.den, a.den * b.num)
    ELSE Rac(-(a.num * b.den), -(a.den * b.num))

\* (diferencia / esperado) * 100 if esperado != 0 else 0
desviacion_pct(diferencia, esperado) ==
    IF esperado.num # 0
    THEN Por(Cociente(diferencia, esperado), Entero(100))
    ELSE Entero(0)

\* variant: a difference equal to the tolerance fails
validar_valor_esperado_Estricto(obtenido, esperado, tolerancia) ==
    LET diferencia == AbsRac(Resta(obtenido, esperado))
        en_rango == Menor(diferencia, tolerancia)
    IN  [obtenido |-> round2(obtenido),
         esperado |-> esperado,
         diferencia |-> round2(diferencia),
         desviacion_pct |-> round2(desviacion_pct(diferencia, esperado)),
         tolerancia |-> tolerancia,
         valido |-> en_rango,
         status |-> IF en_rango THEN "VALIDO" ELSE "FUERA DE RANGO"]

\* genome_utils.validar_valor_esperado; the rounded fields are in
\* hundredths, the status text is kept without its leading symbol and
\* accent
validar_valor_esperado(obtenido, esperado, tolerancia) ==
    LET diferencia == AbsRac(Resta(obtenido, esperado))
        en_rango == MenorIgual(diferencia, tolerancia)
    IN  [obtenido |-> round2(obtenido),
         esperado |-> esperado,
         diferencia |-> round2(diferencia),
         desviacion_pct |-> round2(desviacion_pct(diferencia, esperado)),
         tolerancia |-> tolerancia,
         valido |-> en_rango,
         status |-> IF en_rango THEN "VALIDO" ELSE "FUERA DE RANGO"]

\* variant: the status label is the valid one whatever the verdict
validar_valor_genome_stats_EtiquetaFija(obtenido, esperado, tolerancia, nombre) ==
    LET diferencia == AbsRac(Resta(obtenido, esperado))
        en_rango == MenorIgual(diferencia, tolerancia)
    IN  [parametro |-> nombre,
         obtenido |-> round2(obtenido),
         esperado |-> esperado,
         diferencia |-> round2(diferencia),
         desviacion_pct |-> round2(desviacion_pct(diferencia, esperado)),
         tolerancia |-> tolerancia,
         en_rango |-> en_rango,
         status |-> "VALIDO"]

\* validate_genome_stats.validar_valor
validar_valor_genome_stats(obtenido, esperado, tolerancia, nombre) ==
    LET diferencia == AbsRac(Resta(obtenido, esperado))
        en_rango == MenorIgual(diferencia, tolerancia)
    IN  [parametro |-> nombre,
         obtenido |-> round2(obtenido),
         esperado |-> esperado,
         diferencia |-> round2(diferencia),
         desviacion_pct |-> round2(desviacion_pct(diferencia, esperado)),
         tolerancia |-> tolerancia,
         en_rango |-> en_rango,
         status |-> IF en_rango THEN "VALIDO" ELSE "FUERA DE RANGO"]

\* validate_results.validar_valor: obtenido is reported as it came
validar_valor_results(obtenido, esperado, tolerancia) ==
    LET diferencia == AbsRac(Resta(obtenido, esperado))
        en_rango == MenorIgual(diferencia, tolerancia)
    IN  [obtenido |-> obtenido,
         esperado |-> esperado,
         diferencia |-> round2(diferencia),
         desviacion_pct |-> round2(desviacion_pct(diferencia, esperado)),
         en_rango |-> en_rango,
         tolerancia |-> tolerancia,
         status |-> IF en_rango THEN "VALIDO" ELSE "FUERA DE RANGO"]

Nombres == {"Contenido GC"}

LlamadasValidarValor ==
    [fn : {"validar_valor_esperado", "validar_valor_results"},
     obtenido : Numeros, esperado : Numeros, tolerancia : Numeros]
    \cup [fn : {"validar_valor_genome_stats"},
          obtenido : Numeros, esperado : Numeros, tolerancia : Numeros,
          nombre : Nombres]

LlamarValidarValorEsperado ==
    /\ entrada.fn = "validar_valor_esperado"
    /\ salida = Pendiente
    /\ salida' = Devuelto(validar_valor_esperado(entrada.obtenido,
                              entrada.esperado, entrada.tolerancia))
    /\ UNCHANGED entrada
    /\ UNCHANGED <<driverVars, fsVars, distVars, descVars, pos>>

LlamarValidarValorGenomeStats ==
    /\ entrada.fn = "validar_valor_genome_stats"
    /\ salida = Pendiente
    /\ salida' = Devuelto(validar_valor_genome_stats(entrada.obtenido,
                              entrada.esperado, entrada.tolerancia,
                              entrada.nombre))
    /\ UNCHANGED entrada
    /\ UNCHANGED <<driverVars, fsVars, distVars, descVars, pos>>

LlamarValidarValorResults ==
    /\ entrada.fn = "validar_valor_results"
    /\ salida = Pendiente
    /\ salida' = Devuelto(validar_valor_results(entrada.obtenido,
                              entrada.esperado, entrada.tolerancia))
    /\ UNCHANGED entrada
    /\ UNCHANGED <<driverVars, fsVars, distVars, descVars, pos>>

\* variant: a value on a limit of the range fails
validar_rango_Abierto(obtenido, rango_min, rango_max) ==
    LET en_rango == Menor(rango_min, obtenido) /\ Menor(obtenido, rango_max)
    IN  [obtenido |-> round2(obtenido),
         rango_min |-> rango_min,
         rango_max |-> rango_max,
         valido |-> en_rango,
         status |-> IF en_rango THEN "DENTRO DEL RANGO"
                    ELSE "FUERA DEL RANGO"]

\* genome_utils.validar_rango
validar_rango(obtenido, rango_min, rango_max) ==
    LET en_rango == MenorIgual(rango_min, obtenido)
                      /\ MenorIgual(obtenido, rango_max)
    IN  [obtenido |-> round2(obtenido),
         rango_min |-> rango_min,
         rango_max |-> rango_max,
         valido |-> en_rango,
         status |-> IF en_rango THEN "DENTRO DEL RANGO"
                    ELSE "FUERA DEL RANGO"]

\* validate_genome_stats.validar_rango
validar_rango_genome_stats(obtenido, rango_min, rango_max, nombre) ==
    LET en_rango == MenorIgual(rango_min, obtenido)
                      /\ MenorIgual(obtenido, rango_max)
    IN  [parametro |-> nombre,
         obtenido |-> round2(obtenido),
         rango_min |-> rango_min,
         rango_max |-> rango_max,
         en_rango |-> en_rango,
         status |-> IF en_rango THEN "DENTRO DEL RANGO"
                    ELSE "FUERA DEL RANGO"]

\* validate_results.validar_rango: obtenido is reported as it came
validar_rango_results(obtenido, rango_min, rango_max) ==
    LET en_rango == MenorIgual(rango_min, obtenido)
                      /\ MenorIgual(obtenido, rango_max)
    IN  [obtenido |-> obtenido,
         rango_min |-> rango_min,
         rango_max |-> rango_max,
         en_rango |-> en_rango,
         status |-> IF en_rango THEN "DENTRO DEL RANGO"
                    ELSE "FUERA DEL RANGO"]

LlamadasValidarRango ==
    [fn : {"validar_rango", "validar_rango_results"},
     obtenido : Numeros, rango_min : Numeros, rango_max : Numeros]
    \cup [fn : {"validar_rango_genome_stats"},
          obtenido : Numeros, rango_min : Numeros, rango_max : Numeros,
          nombre : Nombres]

LlamarValidarRango ==
    /\ entrada.fn = "validar_rango"
    /\ salida = Pendiente
    /\ salida' = Devuelto(validar_rango(entrada.obtenido, entrada.rango_min,
                                        entrada.rango_max))
    /\ UNCHANGED entrada
    /\ UNCHANGED <<driverVars, fsVars, distVars, descVars, pos>>

LlamarValidarRangoGenomeStats ==
    /\ entrada.fn = "validar_rango_genome_stats"
    /\ salida = Pendiente
    /\ salida' = Devuelto(validar_rango_genome_stats(entrada.obtenido,
                              entrada.rango_min, entrada.rango_max,
                              entrada.nombre))
    /\ UNCHANGED entrada
    /\ UNCHANGED <<driverVars, fsVars, distVars, descVars, pos>>

LlamarValidarRangoResults ==
    /\ entrada.fn = "validar_rango_results"
    /\ salida = Pendiente
    /\ salida' = Devuelto(validar_rango_results(entrada.obtenido,
                              entrada.rango_min, entrada.rango_max))
    /\ UNCHANGED entrada
    /\ UNCHANGED <<driverVars, fsVars, distVars, descVars, pos>>

\* The stop-codon proportions validate_results reads, in hundredths of a
\* percent
PorcentajesCDS == {0, 700, 800, 1000, 1200, 1300, 2000, 3000}

PorcentajesGenoma == {0, 1000, 2500}

StopCodons == {"TAA", "TAG", "TGA"}

\* cds_pct / genoma_pct if genoma_pct > 0 else 0
enriquecimiento(cds_pct, genoma_pct) ==
    IF genoma_pct > 0 THEN Rac(cds_pct, genoma_pct) ELSE Entero(0)

\* variant: an enrichment of exactly 0.8 is neutral
preferencia_UmbralInclusivo(e) ==
    IF Menor(Rac(12, 10), e) THEN "FUERTEMENTE PREFERIDO"
    ELSE IF MenorIgual(Rac(8, 10), e) THEN "NEUTRAL"
    ELSE "EVITADO"

\* if enriquecimiento > 1.2 ... elif enriquecimiento > 0.8 ... else; the
\* labels are kept without their leading symbol
preferencia(e) ==
    IF Menor(Rac(12, 10), e) THEN "FUERTEMENTE PREFERIDO"
    ELSE IF Menor(Rac(8, 10), e) THEN "NEUTRAL"
    ELSE "EVITADO"

LlamadasPreferencia ==
    [fn : {"preferencia"}, stop_codon : StopCodons,
     cds_pct : PorcentajesCDS, genoma_pct : PorcentajesGenoma]

\* validate_results.main, one turn of the loop over the stop codons
ClasificarPreferencia ==
    /\ entrada.fn = "preferencia"
    /\ salida = Pendiente
    /\ LET e == enriquecimiento(entrada.cds_pct, entrada.genoma_pct)
       IN  salida' = Devuelto([stop_codon |-> entrada.stop_codon,
                               cds_pct |-> entrada.cds_pct,
                               genoma_pct |-> entrada.genoma_pct,
                               enriquecimiento |-> e,
                               preferencia |-> preferencia(e)])
    /\ UNCHANGED entrada
    /\ UNCHANGED <<driverVars, fsVars, distVars, descVars, pos>>

\* The features of a record: a kind and a location start..end; the position
\* in record.features stands for the locus tag. A location with
\* start > end is one the extractors are handed without any check of
\* their own.
MaxFeatures == 3

Tipos == {"CDS", "gene", "tRNA"}

Ubicaciones ==
    {[start |-> 0, end |-> 9], [start |-> 4, end |-> 9],
     [start |-> 4, end |-> 4], [start |-> 9, end |-> 4]}

RECURSIVE Features(_)
Features(n) ==
    IF n = 0 THEN {<<>>}
    ELSE LET menos == Features(n - 1)
         IN  menos \cup
             {Append(f, [type |-> t, location |-> u, locus_tag |-> n]) :
                  f \in {g \in menos : Len(g) = n - 1},
                  t \in Tipos, u \in Ubicaciones}

\* the record extraer_info_genes_completa builds for a CDS feature; the
\* qualifier fields other than locus_tag are copied the same way
info_cds(feature) ==
    LET inicio == feature.location.start
        fin == feature.location.end
        longitud == fin - inicio
    IN  [locus_tag |-> feature.locus_tag,
         inicio |-> inicio,
         fin |-> fin,
         longitud_nt |-> longitud,
         longitud_aa |-> longitud \div 3]

\* variant: every feature yields a record, whatever its kind
agregar_info_TodoTipo(cds_info, feature) ==
    Append(cds_info, info_cds(feature))

\* extraer_info_genes_completa, one turn of the loop
agregar_info(cds_info, feature) ==
    IF feature.type = "CDS"
    THEN Append(cds_info, info_cds(feature))
    ELSE cds_info

RECURSIVE extraer_info_desde(_, _, _)
extraer_info_desde(features, i, cds_info) ==
    IF i > Len(features) THEN cds_info
    ELSE extraer_info_desde(features, i + 1,
                            agregar_info(cds_info, features[i]))

extraer_info_genes_completa(features) ==
    extraer_info_desde(features, 1, <<>>)

\* extraer_genes_completos, one turn of the loop: genes and CDS go to their
\* own lists
agregar_gen(info, feature) ==
    LET inicio == feature.location.start
        fin == feature.location.end
        r == [tipo |-> feature.type,
              inicio |-> inicio,
              fin |-> fin,
              longitud |-> fin - inicio,
              locus_tag |-> feature.locus_tag]
    IN  IF feature.type = "gene"
        THEN [info EXCEPT !.genes = Append(@, r)]
        ELSE IF feature.type = "CDS"
        THEN [info EXCEPT !.cds = Append(@, r)]
        ELSE info

RECURSIVE extraer_genes_desde(_, _, _)
extraer_genes_desde(features, i, info) ==
    IF i > Len(features) THEN info
    ELSE extraer_genes_desde(features, i + 1, agregar_gen(info, features[i]))

extraer_genes_completos(features) ==
    extraer_genes_desde(features, 1, [genes |-> <<>>, cds |-> <<>>])

LlamadasExtraer ==
    [fn : {"extraer_info_genes_completa", "extraer_genes_completos"},
     features : Features(MaxFeatures)]

LlamarExtraerInfo ==
    /\ entrada.fn = "extraer_info_genes_completa"
    /\ salida = Pendiente
    /\ salida' = Devuelto(extraer_info_genes_completa(entrada.features))
    /\ UNCHANGED entrada
    /\ UNCHANGED <<driverVars, fsVars, distVars, descVars, pos>>

LlamarExtraerGenes ==
    /\ entrada.fn = "extraer_genes_completos"
    /\ salida = Pendiente
    /\ salida' = Devuelto(extraer_genes_completos(entrada.features))
    /\ UNCHANGED entrada
    /\ UNCHANGED <<driverVars, fsVars, distVars, descVars, pos>>

\* The reference values validate_genome_stats checks against
VALORES_ESPERADOS ==
    [contenido_gc |-> [valor |-> Rac(508, 10), tolerancia |-> Rac(2, 10)],
     porcentaje_codificante |-> [rango |-> <<Entero(85), Entero(90)>>],
     densidad_genica |-> [genes_por_mb |-> Entero(930),
                          tolerancia |-> Entero(50)]]

\* Values analyze_genome_stats may compute, in thousandths: inside, on and
\* just outside the limits of the three checks
Calculados ==
    [contenido_gc |-> {50596, 50600, 50604, 50800},
     porcentaje_codificante |-> {84996, 85000, 87800, 89996, 90004},
     densidad_genica |-> {879996, 880000, 930000, 980004}]

LlamadasEstadisticasGenoma ==
    UNION {[fn : {"genome_statistics"}, parametro : {p},
            calculado : Calculados[p]] : p \in DOMAIN Calculados}

\* the check validate_genome_stats.main applies to a parameter's value
validar_parametro(parametro, obtenido) ==
    IF parametro = "contenido_gc"
    THEN validar_valor_genome_stats(obtenido,
             VALORES_ESPERADOS.contenido_gc.valor,
             VALORES_ESPERADOS.contenido_gc.tolerancia, "Contenido GC")
    ELSE IF parametro = "porcentaje_codificante"
    THEN validar_rango_genome_stats(obtenido,
             VALORES_ESPERADOS.porcentaje_codificante.rango[1],
             VALORES_ESPERADOS.porcentaje_codificante.rango[2],
             "Porcentaje Codificante")
    ELSE validar_valor_genome_stats(obtenido,
             VALORES_ESPERADOS.densidad_genica.genes_por_mb,
             VALORES_ESPERADOS.densidad_genica.tolerancia, "Densidad Genica")

\* analyze_genome_stats.main, resultado_json: the value goes to
\* genome_statistics.json rounded to 2 decimals
GuardarEstadisticasGenoma ==
    /\ entrada.fn = "genome_statistics"
    /\ salida = Pendiente
    /\ salida' = [estado |-> "json",
                  valor |-> round2(Rac(entrada.calculado, 1000))]
    /\ UNCHANGED entrada
    /\ UNCHANGED <<driverVars, fsVars, distVars, descVars, pos>>

\* validate_genome_stats.main: the value is read back from the JSON file
\* and validated
ValidarEstadisticasGenoma ==
    /\ entrada.fn = "genome_statistics"
    /\ salida.estado = "json"
    /\ salida' = Devuelto(validar_parametro(entrada.parametro,
                                            Rac(salida.valor, 100)))
    /\ UNCHANGED entrada
    /\ UNCHANGED <<driverVars, fsVars, distVars, descVars, pos>>

\* the length of the sequence the features of Ubicaciones lie on
TamanosGenoma == {10}

\* calcular_regiones_codificantes: the lengths are added up, whether or
\* not the CDS overlap
calcular_regiones_codificantes(lista, tamano_genoma) ==
    LET total_bp_codificantes ==
            Suma([i \in DOMAIN lista |-> lista[i].longitud])
        porcentaje_codificante ==
            Por(Rac(total_bp_codificantes, tamano_genoma), Entero(100))
        porcentaje_no_codificante ==
            Resta(Entero(100), porcentaje_codificante)
    IN  [bp_codificantes |-> total_bp_codificantes,
         bp_no_codificantes |-> tamano_genoma - total_bp_codificantes,
         porcentaje_codificante |-> porcentaje_codificante,
         porcentaje_no_codificante |-> porcentaje_no_codificante]

\* the CDS lists extraer_genes_completos gives for records whose locations
\* all have start <= end
LlamadasRegiones ==
    [fn : {"calcular_regiones_codificantes"},
     cds_list : {extraer_genes_completos(f).cds :
                    f \in {g \in Features(MaxFeatures) :
                              \A i \in DOMAIN g :
                                  g[i].location.start <= g[i].location.end}},
     tamano_genoma : TamanosGenoma]

LlamarRegiones ==
    /\ entrada.fn = "calcular_regiones_codificantes"
    /\ salida = Pendiente
    /\ salida' = Devuelto(calcular_regiones_codificantes(entrada.cds_list,
                              entrada.tamano_genoma))
    /\ UNCHANGED entrada
    /\ UNCHANGED <<driverVars, fsVars, distVars, descVars, pos>>

\* The helper calls as a specification: any one call, from its arguments to
\* its result
Llamadas ==
    LlamadasOutliersIqr \cup LlamadasEstadisticas \cup LlamadasOutliers
        \cup LlamadasValidarValor \cup LlamadasValidarRango
        \cup LlamadasPreferencia \cup LlamadasExtraer
        \cup LlamadasEstadisticasGenoma \cup LlamadasRegiones

InitUtil ==
    /\ DriverOff
    /\ DistOff
    /\ fs = [x \in Archivos |-> "absent"]
    /\ leidos = {}
    /\ escritos = {}
    /\ pos = <<>>
    /\ entrada \in Llamadas
    /\ salida = Pendiente
    /\ DescargaOff

NextUtil ==
    \/ LlamarOutliersIqr
    \/ LlamarEstadisticasAvanzadas
    \/ LlamarEstadisticasDescriptivas
    \/ LlamarEstadisticasTamanos
    \/ LlamarOutliers
    \/ LlamarValidarValorEsperado
    \/ LlamarValidarValorGenomeStats
    \/ LlamarValidarValorResults
    \/ LlamarValidarRango
    \/ LlamarValidarRangoGenomeStats
    \/ LlamarValidarRangoResults
    \/ ClasificarPreferencia
    \/ LlamarExtraerInfo
    \/ LlamarExtraerGenes
    \/ GuardarEstadisticasGenoma
    \/ ValidarEstadisticasGenoma
    \/ LlamarRegiones

SpecUtil == InitUtil /\ [][NextUtil]_vars

\* ---------------------------------------------------------------------
\* C12: identificar_outliers_iqr(valores, k) puts its fences at
\* Q1 - k*IQR and Q3 + k*IQR and counts the values strictly below the lower
\* one and strictly above the upper one: a value equal to a fence is not an
\* outlier, and with k = 0 the values outside [Q1, Q3] are counted.
\* With Q1 = a/100, Q3 = b/100 (hundredths are exact for a percentile that is
\* a multiple of 25) and k = kn/kd, x is below the lower fence
\* iff 100*kd*x < kd*a - kn*(b - a), and above the upper one iff
\* 100*kd*x > kd*b + kn*(b - a).
OutliersDevueltos ==
    /\ entrada.fn = "identificar_outliers_iqr"
    /\ salida.estado = "devuelto"
    /\ Len(entrada.valores) > 0

C12_VallasEstrictas ==
    OutliersDevueltos =>
        LET v == entrada.valores
            kn == entrada.multiplicador.num
            kd == entrada.multiplicador.den
            q1 == np_percentile(v, 25)
            q3 == np_percentile(v, 75)
            a == q1.num * (100 \div q1.den)
            b == q3.num * (100 \div q3.den)
            bajos == {i \in DOMAIN v : 100 * kd * v[i] < kd * a - kn * (b - a)}
            altos == {i \in DOMAIN v : 100 * kd * v[i] > kd * b + kn * (b - a)}
        IN  /\ salida.valor.num_outliers_bajos = Cardinality(bajos)
            /\ salida.valor.num_outliers_altos = Cardinality(altos)
            /\ salida.valor.total_outliers =
                   Cardinality(bajos) + Cardinality(altos)
            /\ kn = 0 =>
                  salida.valor.total_outliers =
                      Cardinality({i \in DOMAIN v :
                          100 * v[i] < a \/ 100 * v[i] > b})

\* 0, 0, 0, 10 with k = 0: Q1 = 0 and Q3 = 2.5, the three zeros sit on the
\* lower fence and are not counted, 10 is the one outlier
C12_Witness ==
    /\ OutliersDevueltos
    /\ entrada.multiplicador.num = 0
    /\ \E i \in DOMAIN entrada.valores :
           Igual(Entero(entrada.valores[i]),
                 np_percentile(entrada.valores, 25))
    /\ salida.valor.num_outliers_bajos = 0
    /\ salida.valor.total_outliers = 1

\* ---------------------------------------------------------------------
\* C13: for a non-empty sequence and multipliers k1 <= k2, the total of
\* outliers reported with k2 is at most the total reported with k1.
C13_MonotonoEnK ==
    OutliersDevueltos =>
        \A k2 \in Multiplicadores :
            MenorIgual(entrada.multiplicador, k2) =>
                identificar_outliers_iqr(entrada.valores, k2).total_outliers
                    <= salida.valor.total_outliers

\* a call whose outliers all disappear under a larger multiplier
C13_Witness ==
    /\ OutliersDevueltos
    /\ salida.valor.total_outliers > 0
    /\ \E k2 \in Multiplicadores :
          /\ Menor(entrada.multiplicador, k2)
          /\ identificar_outliers_iqr(entrada.valores, k2).total_outliers = 0

\* ---------------------------------------------------------------------
\* C14: for a non-empty input, calcular_estadisticas_avanzadas and
\* calcular_estadisticas_descriptivas report percentil_50 equal to mediana,
\* rango_intercuartil equal to percentil_75 - percentil_25, every percentile
\* between minimo and maximo, and every percentile linearly interpolated
\* between the two sorted values around the rank (n - 1) * p / 100.
EstadisticasDevueltas ==
    /\ entrada.fn \in {"calcular_estadisticas_avanzadas",
                       "calcular_estadisticas_descriptivas"}
    /\ salida.estado = "devuelto"
    /\ Len(entrada.valores) > 0

\* the percentiles a result reports, as <<p, value>>
PercentilesReportados ==
    LET e == salida.valor
    IN  {<<25, e.percentil_25>>, <<50, e.percentil_50>>,
         <<75, e.percentil_75>>, <<95, e.percentil_95>>}
        \cup IF entrada.fn = "calcular_estadisticas_avanzadas"
             THEN {<<5, e.percentil_5>>, <<10, e.percentil_10>>,
                   <<90, e.percentil_90>>}
             ELSE {}

\* x = a + (b - a) * t for the rank's neighbours a, b and its fraction t
Interpolado(v, p, x) ==
    LET o == Ordenar(v)
        n == Len(v)
        bajo == ((n - 1) * p) \div 100
        alto == IF bajo + 1 < n THEN bajo + 1 ELSE bajo
        t == (n - 1) * p - 100 * bajo
    IN  x.num * 100 = x.den * (100 * o[bajo + 1] + (o[alto + 1] - o[bajo + 1]) * t)

C14_Percentiles ==
    EstadisticasDevueltas =>
        LET e == salida.valor
        IN  /\ Igual(e.percentil_50, e.mediana)
            /\ Igual(e.rango_intercuartil,
                     Resta(e.percentil_75, e.percentil_25))
            /\ \A par \in PercentilesReportados :
                  /\ MenorIgual(Entero(e.minimo), par[2])
                  /\ MenorIgual(par[2], Entero(e.maximo))
                  /\ Interpolado(entrada.valores, par[1], par[2])

\* an even count with distinct middle values: the median and the quartiles
\* fall between sorted values
C14_Witness ==
    /\ EstadisticasDevueltas
    /\ Len(entrada.valores) = 4
    /\ salida.valor.mediana.den = 2
    /\ salida.valor.percentil_25.den = 4
    /\ Menor(Entero(salida.valor.minimo), salida.valor.percentil_25)

\* ---------------------------------------------------------------------
\* C15: called on an empty input, every statistics, percentile and outlier
\* helper fails with an exception; none returns a result.
Ayudantes ==
    {"calcular_estadisticas_descriptivas", "calcular_estadisticas_avanzadas",
     "calcular_estadisticas_tamanos", "identificar_outliers",
     "identificar_outliers_iqr"}

C15_VacioFalla ==
    (/\ entrada.fn \in Ayudantes
     /\ Len(entrada.valores) = 0
     /\ salida # Pendiente) => salida.estado = "excepcion"

\* ---------------------------------------------------------------------
\* C16: calcular_estadisticas_avanzadas reports coef_variacion =
\* desviacion_std / media * 100 whenever the mean is not zero, and exactly 0
\* when the mean is 0. With c = coef * sqrt(radicando), c = std / media * 100
\* iff coef = 100 and radicando * media^2 = varianza = std^2.
AvanzadasDevueltas ==
    /\ entrada.fn = "calcular_estadisticas_avanzadas"
    /\ salida.estado = "devuelto"

EsCero(c) == c.radicando.den # 0 /\ (c.coef = 0 \/ c.radicando.num = 0)

C16_WitnessCero ==
    /\ AvanzadasDevueltas
    /\ Len(entrada.valores) > 1
    /\ salida.valor.media.num = 0
    /\ EsCero(salida.valor.coef_variacion)

\* ---------------------------------------------------------------------
\* C17: the reported mode is the value with the highest count and, among
\* values with that same count, the one met first in the input's order.
Apariciones(v, x) == Cardinality({i \in DOMAIN v : v[i] = x})

Primera(v, x) == CHOOSE i \in DOMAIN v :
                    v[i] = x /\ \A j \in DOMAIN v : v[j] = x => i <= j

C17_ModaPrimera ==
    EstadisticasDevueltas =>
        LET v == entrada.valores
            m == salida.valor.moda
        IN  /\ \E i \in DOMAIN v : v[i] = m
            /\ \A i \in DOMAIN v :
                  /\ Apariciones(v, v[i]) <= Apariciones(v, m)
                  /\ (v[i] # m /\ Apariciones(v, v[i]) = Apariciones(v, m))
                         => Primera(v, m) < Primera(v, v[i])

\* two values tied at two appearances each, the larger one met first
C17_Witness ==
    /\ EstadisticasDevueltas
    /\ \E i \in DOMAIN entrada.valores :
          LET x == entrada.valores[i]
          IN  /\ x < salida.valor.moda
              /\ Apariciones(entrada.valores, x) = 2
              /\ Apariciones(entrada.valores, salida.valor.moda) = 2
              /\ entrada.valores[Len(entrada.valores)] = x

\* ---------------------------------------------------------------------
\* C18: in tolerance mode a check passes exactly when
\* |observed - expected| <= tolerance: a value checked against itself
\* passes for every tolerance >= 0, a difference equal to the tolerance
\* passes, and the percentage deviation is 0 when the expected value is 0.
ValorValidado ==
    /\ entrada.fn \in {"validar_valor_esperado", "validar_valor_genome_stats",
                       "validar_valor_results"}
    /\ salida.estado = "devuelto"

\* the verdict, under the key the implementation gives it
Veredicto ==
    IF entrada.fn \in {"validar_valor_esperado", "validar_rango"}
    THEN salida.valor.valido
    ELSE salida.valor.en_rango

\* |observed - expected| * (common denominator), and the tolerance likewise
DistanciaEscalada ==
    Abs(entrada.obtenido.num * entrada.esperado.den
          - entrada.esperado.num * entrada.obtenido.den)
        * entrada.tolerancia.den

ToleranciaEscalada ==
    entrada.tolerancia.num * entrada.obtenido.den * entrada.esperado.den

C18_Tolerancia ==
    ValorValidado =>
        /\ Veredicto <=> DistanciaEscalada <= ToleranciaEscalada
        /\ entrada.obtenido = entrada.esperado => Veredicto
        /\ DistanciaEscalada = ToleranciaEscalada => Veredicto
        /\ salida.valor.status =
               (IF Veredicto THEN "VALIDO" ELSE "FUERA DE RANGO")
        /\ entrada.esperado.num = 0 => salida.valor.desviacion_pct = 0

\* a difference of exactly the tolerance, not zero, that passes
C18_Witness ==
    /\ ValorValidado
    /\ entrada.tolerancia.num > 0
    /\ DistanciaEscalada = ToleranciaEscalada
    /\ Veredicto
    /\ salida.valor.desviacion_pct > 0

\* ---------------------------------------------------------------------
\* C19: in range mode a check passes exactly when lo <= observed <= hi,
\* both limits included.
RangoValidado ==
    /\ entrada.fn \in {"validar_rango", "validar_rango_genome_stats",
                       "validar_rango_results"}
    /\ salida.estado = "devuelto"

C19_RangoInclusivo ==
    RangoValidado =>
        /\ Veredicto <=>
              /\ entrada.rango_min.num * entrada.obtenido.den
                     <= entrada.obtenido.num * entrada.rango_min.den
              /\ entrada.obtenido.num * entrada.rango_max.den
                     <= entrada.rango_max.num * entrada.obtenido.den
        /\ salida.valor.status =
               (IF Veredicto THEN "DENTRO DEL RANGO" ELSE "FUERA DEL RANGO")

\* an observed value on the upper limit of a proper range, accepted
C19_Witness ==
    /\ RangoValidado
    /\ entrada.obtenido = entrada.rango_max
    /\ Menor(entrada.rango_min, entrada.rango_max)
    /\ Veredicto

\* ---------------------------------------------------------------------
\* The enrichment is cds_pct / genoma_pct, and 0 when genoma_pct is 0.
PreferenciaClasificada ==
    /\ entrada.fn = "preferencia"
    /\ salida.estado = "devuelto"

EnriquecimientoCorrecto ==
    LET e == salida.valor.enriquecimiento
    IN  IF entrada.genoma_pct = 0
        THEN e.num = 0
        ELSE e.num * entrada.genoma_pct = entrada.cds_pct * e.den

\* C20 as stated: the enrichment is the CDS fraction over the genome
\* fraction (0 when the genome fraction is 0); above 1.2 it is preferred,
\* from 0.8 to 1.2 with both ends included it is neutral, below 0.8 it is
\* avoided.
C20_NeutralInclusivo ==
    PreferenciaClasificada =>
        LET e == salida.valor.enriquecimiento
            p == salida.valor.preferencia
        IN  /\ EnriquecimientoCorrecto
            /\ p = "FUERTEMENTE PREFERIDO" <=> 10 * e.num > 12 * e.den
            /\ p = "NEUTRAL" <=>
                   (8 * e.den <= 10 * e.num /\ 10 * e.num <= 12 * e.den)
            /\ p = "EVITADO" <=> 10 * e.num < 8 * e.den

\* C20 amended: the enrichment is the CDS fraction over the genome fraction
\* (0 when the genome fraction is 0); above 1.2 it is preferred, above 0.8
\* and up to 1.2 included it is neutral, at 0.8 or below it is avoided.
C20_Preferencia ==
    PreferenciaClasificada =>
        LET e == salida.valor.enriquecimiento
            p == salida.valor.preferencia
        IN  /\ EnriquecimientoCorrecto
            /\ p = "FUERTEMENTE PREFERIDO" <=> 10 * e.num > 12 * e.den
            /\ p = "NEUTRAL" <=>
                   (8 * e.den < 10 * e.num /\ 10 * e.num <= 12 * e.den)
            /\ p = "EVITADO" <=> 10 * e.num <= 8 * e.den

\* an enrichment of exactly 0.8 (20 % of the CDS stops against 25 % of the
\* genome's), classified as avoided
C20_Witness ==
    /\ PreferenciaClasificada
    /\ entrada.genoma_pct = 2500
    /\ entrada.cds_pct = 2000
    /\ salida.valor.preferencia = "EVITADO"

\* an enrichment of exactly 1.2, classified as neutral
C20_WitnessSuperior ==
    /\ PreferenciaClasificada
    /\ entrada.genoma_pct > 0
    /\ 10 * entrada.cds_pct = 12 * entrada.genoma_pct
    /\ salida.valor.preferencia = "NEUTRAL"

\* ---------------------------------------------------------------------
\* C21: extraer_info_genes_completa returns one record per CDS feature and
\* none for a feature of another kind, in the order of record.features,
\* with longitud_nt = end - start and longitud_aa = longitud_nt
\* integer-divided by 3.
InfoExtraida ==
    /\ entrada.fn = "extraer_info_genes_completa"
    /\ salida.estado = "devuelto"

\* the positions of the CDS features, in increasing order
PosicionesCDS == {i \in DOMAIN entrada.features : entrada.features[i].type = "CDS"}

C21_UnRegistroPorCDS ==
    InfoExtraida =>
        LET r == salida.valor
            f == entrada.features
        IN  /\ Len(r) = Cardinality(PosicionesCDS)
            /\ \A j \in DOMAIN r :
                  /\ r[j].locus_tag \in PosicionesCDS
                  /\ r[j].longitud_nt = f[r[j].locus_tag].location.end
                                          - f[r[j].locus_tag].location.start
                  /\ 3 * r[j].longitud_aa <= r[j].longitud_nt
                  /\ r[j].longitud_nt < 3 * r[j].longitud_aa + 3
            /\ \A j, k \in DOMAIN r : j < k => r[j].locus_tag < r[k].locus_tag

\* a gene between two CDS features of different lengths: two records, in
\* feature order, the second one shorter
C21_Witness ==
    /\ InfoExtraida
    /\ Len(entrada.features) = 3
    /\ entrada.features[2].type = "gene"
    /\ Len(salida.valor) = 2
    /\ salida.valor[1].longitud_nt = 9
    /\ salida.valor[1].longitud_aa = 3
    /\ salida.valor[2].longitud_nt = 5
    /\ salida.valor[2].longitud_aa = 1

\* ---------------------------------------------------------------------
\* C22: every nucleotide length the feature extractors produce is
\* non-negative; a feature with start > end makes the extraction fail
\* instead of yielding a record.
C22_LongitudNoNegativa ==
    /\ InfoExtraida =>
          /\ \A j \in DOMAIN salida.valor : salida.valor[j].longitud_nt >= 0
          /\ \A i \in PosicionesCDS :
                entrada.features[i].location.start
                    <= entrada.features[i].location.end
    /\ (entrada.fn = "extraer_genes_completos" /\ salida.estado = "devuelto") =>
          /\ \A j \in DOMAIN salida.valor.cds :
                salida.valor.cds[j].longitud >= 0
          /\ \A j \in DOMAIN salida.valor.genes :
                salida.valor.genes[j].longitud >= 0

\* ---------------------------------------------------------------------
\* C23: for the same observed value, expected value and tolerance the three
\* tolerance implementations return the same verdict and the same status
\* label, and so do the three range implementations for the same observed
\* value and limits; the label is the valid one exactly when the verdict
\* is true.
C23_ImplementacionesIguales ==
    /\ ValorValidado =>
          LET o == entrada.obtenido
              e == entrada.esperado
              t == entrada.tolerancia
              u == validar_valor_esperado(o, e, t)
              g == validar_valor_genome_stats(o, e, t, "Contenido GC")
              r == validar_valor_results(o, e, t)
          IN  /\ Veredicto = u.valido
              /\ Veredicto = g.en_rango
              /\ Veredicto = r.en_rango
              /\ {salida.valor.status} = {u.status, g.status, r.status}
              /\ salida.valor.status = "VALIDO" <=> Veredicto
    /\ RangoValidado =>
          LET o == entrada.obtenido
              lo == entrada.rango_min
              hi == entrada.rango_max
              u == validar_rango(o, lo, hi)
              g == validar_rango_genome_stats(o, lo, hi, "Contenido GC")
              r == validar_rango_results(o, lo, hi)
          IN  /\ Veredicto = u.valido
              /\ Veredicto = g.en_rango
              /\ Veredicto = r.en_rango
              /\ {salida.valor.status} = {u.status, g.status, r.status}
              /\ salida.valor.status = "DENTRO DEL RANGO" <=> Veredicto

\* a failed tolerance check of 0.125, a value the implementations report
\* differently (0.12 rounded, 0.125 as it came) under the same verdict
C23_Witness ==
    /\ ValorValidado
    /\ entrada.fn = "validar_valor_genome_stats"
    /\ entrada.obtenido = [num |-> 1, den |-> 8]
    /\ ~Veredicto
    /\ salida.valor.status = "FUERA DE RANGO"
    /\ salida.valor.obtenido = 12

\* ---------------------------------------------------------------------
OutliersFijosDevueltos ==
    /\ entrada.fn = "identificar_outliers"
    /\ salida.estado = "devuelto"
    /\ Len(entrada.valores) > 0

\* the counts of the two implementations agree, and the quartiles the
\* fixed-multiplier one works with are those of the statistics bundle
MismasCuentas ==
    LET a == salida.valor
        b == identificar_outliers_iqr(entrada.valores, [num |-> 3, den |-> 2])
        e == calcular_estadisticas_avanzadas(entrada.valores)
    IN  /\ a.num_outliers_bajos = b.num_outliers_bajos
        /\ a.num_outliers_altos = b.num_outliers_altos
        /\ a.total_outliers = b.total_outliers
        /\ Igual(a.iqr, Resta(e.percentil_75, e.percentil_25))
        /\ b.q1 = round2(e.percentil_25)
        /\ b.q3 = round2(e.percentil_75)

ExtremosIdentificados == paso \in {"extremos", "guardado"}

\* ascending length, records of equal length in feature order (the locus
\* tag is the feature's position)
EnOrden(t) ==
    \A i, j \in DOMAIN t :
        i < j => \/ t[i].longitud_nt < t[j].longitud_nt
                 \/ /\ t[i].longitud_nt = t[j].longitud_nt
                    /\ t[i].locus_tag < t[j].locus_tag

C25_GenesExtremos ==
    ExtremosIdentificados =>
        LET p == genes_extremos.mas_pequenos
            g == genes_extremos.mas_grandes
            n == Len(cds_list)
            m == IF n < 10 THEN n ELSE 10
        IN  /\ Len(p) = m
            /\ Len(g) = m
            /\ \A i \in DOMAIN p : Veces(p[i], cds_list) = 1
            /\ \A i \in DOMAIN g : Veces(g[i], cds_list) = 1
            /\ EnOrden(p)
            /\ EnOrden(g)
            /\ \A c \in DOMAIN cds_list :
                  /\ Veces(cds_list[c], p) = 0 =>
                        \A i \in DOMAIN p :
                            p[i].longitud_nt <= cds_list[c].longitud_nt
                  /\ Veces(cds_list[c], g) = 0 =>
                        \A i \in DOMAIN g :
                            g[i].longitud_nt >= cds_list[c].longitud_nt
            /\ paso = "guardado" =>
                  LET df == genes_extremos.df_extremos
                  IN  /\ Len(df) = 2 * m
                      /\ \A i \in 1..m :
                            /\ df[i].tipo = "Mas pequeno"
                            /\ df[i].locus_tag = p[i].locus_tag
                            /\ df[m + i].tipo = "Mas grande"
                            /\ df[m + i].locus_tag = g[i].locus_tag

\* twelve records: two are left out of each table, and records of equal
\* length sit side by side in the table of the shortest
C25_Witness ==
    /\ paso = "guardado"
    /\ Len(cds_list) = 12
    /\ Len(genes_extremos.mas_pequenos) = 10
    /\ \E i \in 1..9 :
          genes_extremos.mas_pequenos[i].longitud_nt
              = genes_extremos.mas_pequenos[i + 1].longitud_nt
    /\ \E c \in DOMAIN cds_list :
          Veces(cds_list[c], genes_extremos.mas_grandes) = 0

\* ---------------------------------------------------------------------
Verificado == pc \in {"reporte", "resumen", "done"}

\* script s was launched in this run and ejecutar_script returned True
Exitoso(s) == \E i \in DOMAIN launched : launched[i] = s /\ exitos[i]

\* C26: when verificar_archivos_generados reports every expected file as
\* present, each of them was written in this run by a stage that succeeded;
\* a file left by an earlier run does not stand in for the output of a
\* stage that failed.
C26_ArchivosDeEstaCorrida ==
    (Verificado /\ archivos_ok) =>
        \A x \in ArchivosEsperados :
            /\ fs[x] \in Scripts
            /\ Exitoso(fs[x])

\* ---------------------------------------------------------------------
\* C27: REPORTE_FINAL.txt, with its conclusion that the analysis completed
\* successfully and every result was validated, is written only in runs in
\* which no stage failed.
C27_ReporteSoloSinFallos ==
    ReporteEscrito => scripts_fallidos = 0

\* ---------------------------------------------------------------------
\* C28: the verdict validate_genome_stats gives for GC content, coding
\* percentage and gene density is the verdict the same validator gives on
\* the unrounded value analyze_genome_stats computed: rounding to 2
\* decimals never flips a verdict.
C28_RedondeoNoCambiaVeredicto ==
    (entrada.fn = "genome_statistics" /\ salida.estado = "devuelto") =>
        salida.valor.en_rango =
            validar_parametro(entrada.parametro,
                              Rac(entrada.calculado, 1000)).en_rango

\* ---------------------------------------------------------------------
\* C29: for any list of CDS records, overlapping ones included, on a genome
\* of positive size, calcular_regiones_codificantes gives
\* bp_codificantes + bp_no_codificantes = genome size and
\* porcentaje_codificante + porcentaje_no_codificante = 100, both base
\* counts non-negative and both percentages between 0 and 100.
C29_RegionesAcotadas ==
    (entrada.fn = "calcular_regiones_codificantes"
        /\ salida.estado = "devuelto") =>
        LET r == salida.valor
        IN  /\ r.bp_codificantes + r.bp_no_codificantes = entrada.tamano_genoma
            /\ Igual(Mas(r.porcentaje_codificante, r.porcentaje_no_codificante),
                     Entero(100))
            /\ r.bp_codificantes >= 0
            /\ r.bp_no_codificantes >= 0
            /\ MenorIgual(Entero(0), r.porcentaje_codificante)
            /\ MenorIgual(r.porcentaje_codificante, Entero(100))
            /\ MenorIgual(Entero(0), r.porcentaje_no_codificante)
            /\ MenorIgual(r.porcentaje_no_codificante, Entero(100))

\* ---------------------------------------------------------------------
\* download_ecoli_fixed.py: the script as a specification.  Each action is
\* one statement of the script that touches the network, the record or
\* the file system, with the exception it may raise as a second outcome.

\* Entrez.efetch of the primary accession (lines 27-32).
Efetch ==
    /\ paso_descarga = "efetch"
    /\ \/ paso_descarga' = "read"
       \/ paso_descarga' = "except"
    /\ UNCHANGED <<output_file, backup, record, previo>>
    /\ UNCHANGED <<driverVars, fsVars, distVars, utilVars, pos>>

\* SeqIO.read of the primary handle (lines 35-42).
Read ==
    /\ paso_descarga = "read"
    /\ \/ /\ record' = "U00096.3"
          /\ paso_descarga' = "verificar"
       \/ /\ record' = record
          /\ paso_descarga' = "except"
    /\ UNCHANGED <<output_file, backup, previo>>
    /\ UNCHANGED <<driverVars, fsVars, distVars, utilVars, pos>>

\* str(record.seq) and the two slices printed (lines 45-49).
VerificarSecuencia ==
    /\ paso_descarga = "verificar"
    /\ \/ paso_descarga' = "backup"
       \/ paso_descarga' = "except"
    /\ UNCHANGED <<output_file, backup, record, previo>>
    /\ UNCHANGED <<driverVars, fsVars, distVars, utilVars, pos>>

\* The backup of an existing output file (lines 53-59): os.rename replaces
\* whatever the backup path held.
HacerBackup ==
    /\ paso_descarga = "backup"
    /\ IF output_file # "absent"
       THEN \/ /\ backup' = output_file
               /\ output_file' = "absent"
               /\ paso_descarga' = "write"
            \/ /\ UNCHANGED <<output_file, backup>>
               /\ paso_descarga' = "except"
       ELSE /\ UNCHANGED <<output_file, backup>>
            /\ paso_descarga' = "write"
    /\ UNCHANGED <<record, previo>>
    /\ UNCHANGED <<driverVars, fsVars, distVars, utilVars, pos>>

\* SeqIO.write of the primary record (lines 61-62): the file holds the
\* record when the write succeeds; a write that raises either never opened
\* the file or truncated it and left part of the record.
Write ==
    /\ paso_descarga = "write"
    /\ \/ /\ output_file' = record
          /\ paso_descarga' = "estadisticas"
       \/ /\ output_file' \in {output_file, "parcial"}
          /\ paso_descarga' = "except"
    /\ UNCHANGED <<backup, record, previo>>
    /\ UNCHANGED <<driverVars, fsVars, distVars, utilVars, pos>>

\* The final statistics of the primary download (lines 64-81).
Estadisticas ==
    /\ paso_descarga = "estadisticas"
    /\ \/ paso_descarga' = "sleep"
       \/ paso_descarga' = "except"
    /\ UNCHANGED <<output_file, backup, record, previo>>
    /\ UNCHANGED <<driverVars, fsVars, distVars, utilVars, pos>>

\* except Exception as e: Entrez.efetch of NC_000913.3 (lines 83-93).
EfetchAlternativo ==
    /\ paso_descarga = "except"
    /\ \/ paso_descarga' = "read_alternativo"
       \/ paso_descarga' = "critico"
    /\ UNCHANGED <<output_file, backup, record, previo>>
    /\ UNCHANGED <<driverVars, fsVars, distVars, utilVars, pos>>

\* SeqIO.read of the fallback handle (lines 94-95).
ReadAlternativo ==
    /\ paso_descarga = "read_alternativo"
    /\ \/ /\ record' = "NC_000913.3"
          /\ paso_descarga' = "write_alternativo"
       \/ /\ record' = record
          /\ paso_descarga' = "critico"
    /\ UNCHANGED <<output_file, backup, previo>>
    /\ UNCHANGED <<driverVars, fsVars, distVars, utilVars, pos>>

\* SeqIO.write of the fallback record (lines 97-102): the output path is
\* written as it is, with no test for an existing file and no rename.
WriteAlternativo ==
    /\ paso_descarga = "write_alternativo"
    /\ \/ /\ output_file' = record
          /\ paso_descarga' = "sleep"
       \/ /\ output_file' \in {output_file, "parcial"}
          /\ paso_descarga' = "critico"
    /\ UNCHANGED <<backup, record, previo>>
    /\ UNCHANGED <<driverVars, fsVars, distVars, utilVars, pos>>

\* except Exception as e2: the critical error is printed (lines 104-105).
ErrorCritico ==
    /\ paso_descarga = "critico"
    /\ paso_descarga' = "sleep"
    /\ UNCHANGED <<output_file, backup, record, previo>>
    /\ UNCHANGED <<driverVars, fsVars, distVars, utilVars, pos>>

\* time.sleep(1) and the end of the script (line 107).
Sleep ==
    /\ paso_descarga = "sleep"
    /\ paso_descarga' = "done"
    /\ UNCHANGED <<output_file, backup, record, previo>>
    /\ UNCHANGED <<driverVars, fsVars, distVars, utilVars, pos>>

\* ~/data/raw when the script starts (lines 12-13) holds the genome file
\* of an earlier download or none, and an older backup or none.
InitDescarga ==
    /\ DriverOff
    /\ DistOff
    /\ UtilOff
    /\ fs = [x \in Archivos |-> "absent"]
    /\ leidos = {}
    /\ escritos = {}
    /\ pos = <<>>
    /\ paso_descarga = "efetch"
    /\ previo \in {"absent", "previo"}
    /\ output_file = previo
    /\ backup \in {"absent", "anterior"}
    /\ record = "none"

NextDescarga ==
    \/ Efetch
    \/ Read
    \/ VerificarSecuencia
    \/ HacerBackup
    \/ Write
    \/ Estadisticas
    \/ EfetchAlternativo
    \/ ReadAlternativo
    \/ WriteAlternativo
    \/ ErrorCritico
    \/ Sleep

SpecDescarga == InitDescarga /\ [][NextDescarga]_vars

\* ---------------------------------------------------------------------
\* C30: download_ecoli_fixed never destroys an existing genome file
\* without a backup: on the primary path and on the fallback path alike,
\* a genome file that existed when the script started is still the
\* content of ecoli_k12_mg1655.gbk or has been renamed to
\* ecoli_k12_mg1655.gbk.backup.
C30_SinPerdida ==
    (paso_descarga # "off" /\ previo # "absent") =>
        (output_file = previo \/ backup = previo)

====
